---------------------------- MODULE Spec2Model ----------------------------
(***************************************************************************)
(* Type Collapse: the elastic text component (its frame callback, pointer  *)
(* handlers and tweens) and the screenshot / sequence export hook.         *)
(*                                                                         *)
(* Numbers.  JavaScript numbers are modelled in fixed point: the integer n *)
(* stands for n / Unit.  A product or a quotient is rounded to the nearest *)
(* representable value, as a floating-point operation rounds its result.   *)
(* Math.sin, Math.cos, Math.exp and Math.pow are computed by series on the *)
(* same fixed-point values.                                                *)
(*                                                                         *)
(* Two versions of the text component are in the repository:               *)
(*   "blend"       src/src/scene/ElasticText.tsx  (pause blend, no         *)
(*                 automation, no override)                                *)
(*   "automation"  src/unnamed/part_002  (automation, timeline override,   *)
(*                 a paused frame returns before the simulation)           *)
(* The variable variant says which one is mounted.                         *)
(***************************************************************************)
EXTENDS Integers, Sequences, FiniteSets, TLC

Unit == 10 ^ 3

\* null and undefined
Null == [null |-> TRUE]

\* an attribute the geometry does not have
NoAttribute == <<>>

Max(a, b) == IF a >= b THEN a ELSE b

Min(a, b) == IF a <= b THEN a ELSE b

Abs(a) == IF a >= 0 THEN a ELSE -a

Sign(a) == IF a > 0 THEN 1 ELSE IF a < 0 THEN -1 ELSE 0

clamp(value, min, max) == Min(max, Max(min, value))

\* n / d rounded to the nearest integer, halves away from zero (d > 0)
RDiv(n, d) ==
  IF n >= 0 THEN (n + d \div 2) \div d ELSE -((-n + d \div 2) \div d)

\* a * b of two fixed-point numbers; the high part of |a| is multiplied apart
MulFix(a, b) ==
  LET aa == Abs(a)
      bb == Abs(b)
      m  == (aa \div Unit) * bb + RDiv((aa % Unit) * bb, Unit)
  IN  Sign(a) * Sign(b) * m

\* a / b of two fixed-point numbers (b # 0)
DivFix(a, b) ==
  LET aa == Abs(a)
      bb == Abs(b)
      q  == (aa \div bb) * Unit + RDiv((aa % bb) * Unit, bb)
  IN  Sign(a) * Sign(b) * q

\* Math.floor of a fixed-point number, as an integer
FloorFix(a) == a \div Unit

RECURSIVE SqrtSearch(_, _, _)
SqrtSearch(n, lo, hi) ==
  IF lo >= hi THEN lo
  ELSE LET mid == (lo + hi + 1) \div 2
       IN  IF mid * mid <= n THEN SqrtSearch(n, mid, hi)
           ELSE SqrtSearch(n, lo, mid - 1)

\* Math.sqrt of n, n being a sum of squares of fixed-point numbers
SqrtFix(n) ==
  LET r == SqrtSearch(n, 0, 46000)
  IN  IF n - r * r > r THEN r + 1 ELSE r

Pi == 3142

TwoPi == 6283

\* sin of an angle in [0, Pi] (Bhaskara's rational approximation)
SinHalfTurn(x) ==
  LET p == RDiv(x * (Pi - x), Unit)
  IN  RDiv(16 * Unit * p, 5 * 9872 - 4 * p)

\* Math.sin
SinFix(a) ==
  LET r == a % TwoPi
  IN  IF r <= Pi THEN SinHalfTurn(r) ELSE -SinHalfTurn(Min(r - Pi, Pi))

\* Math.cos
CosFix(a) == SinFix(a + Pi \div 2)

RECURSIVE ExpNegInt(_)
\* e^(-k) for an integer k >= 0
ExpNegInt(k) ==
  IF k = 0 THEN Unit
  ELSE IF k > 7 THEN 0
  ELSE CHOOSE r \in {MulFix(368, e) : e \in {ExpNegInt(k - 1)}} : TRUE

\* the series of e^(-f) for f in [0, 1)
ExpSeries(f) ==
  LET f2 == MulFix(f, f)
      f3 == MulFix(f2, f)
      f4 == MulFix(f3, f)
      f5 == MulFix(f4, f)
  IN  Unit - f + RDiv(f2, 2) - RDiv(f3, 6) + RDiv(f4, 24) - RDiv(f5, 120)

\* e^(-x) for x >= 0: e^(-floor x) times the series of e^(-frac x); the
\* fraction and the series are each computed once
ExpNeg(x) ==
  IF x \div Unit > 7 THEN 0
  ELSE CHOOSE r \in {MulFix(e, Max(s, 0)) :
                       e \in {ExpNegInt(x \div Unit)},
                       s \in {ExpSeries(f) : f \in {x % Unit}}} : TRUE

\* Math.exp
ExpFix(x) ==
  IF x <= 0 THEN ExpNeg(-x)
  ELSE LET d == ExpNeg(Min(x, 7 * Unit))
       IN  DivFix(Unit, Max(d, 1))

RECURSIVE LnNegReduce(_, _)
\* <<k, y>> with x = y * e^(-k) and y in (1/e, 1], for x in (0, 1]
LnNegReduce(x, k) ==
  IF x * 1000 >= 368 * Unit \/ k >= 7 THEN <<k, x>>
  ELSE LnNegReduce(MulFix(x, 2718), k + 1)

\* k + 2 artanh(u), by the series u + u^3 / 3 + u^5 / 5
LnSeries(k, u) ==
  LET u2 == MulFix(u, u)
      u3 == MulFix(u2, u)
      u5 == MulFix(u3, u2)
  IN  k * Unit + 2 * (u + RDiv(u3, 3) + RDiv(u5, 5))

\* -ln(y e^(-k)) for ky = <<k, y>>: k - ln y, with u = (1 - y) / (1 + y)
LnNegReduced(ky) ==
  LnSeries(ky[1], DivFix(Unit - Min(ky[2], Unit), Unit + Min(ky[2], Unit)))

\* -ln(x) for x in (0, 1]
LnNeg(x) == LnNegReduced(LnNegReduce(x, 0))

\* Math.pow(x, e) for x in [0, 1] and e >= 0
PowFix(x, e) ==
  IF x <= 0 THEN (IF e = 0 THEN Unit ELSE 0)
  ELSE IF x >= Unit THEN Unit
  ELSE ExpNeg(MulFix(e, LnNeg(x)))


(***************************************************************************)
(* Vectors (three.js Vector3) and flat vertex arrays (Float32Array).       *)
(***************************************************************************)
Vec(x, y, z) == <<x, y, z>>

Zero3 == Vec(0, 0, 0)

\* Vector3.lerp and Vector3.lerpVectors: a + (b - a) * alpha
VLerp(a, b, alpha) ==
  [k \in 1..3 |-> a[k] + MulFix(b[k] - a[k], alpha)]

\* the rotation matrix of Matrix4.makeRotationFromEuler, order XYZ, from the
\* cosines a, c, ee and the sines b, d, f of the three angles, applied to v
Rotate(v, a, b, c, d, ee, f) ==
  LET ae == MulFix(a, ee)
      af == MulFix(a, f)
      be == MulFix(b, ee)
      bf == MulFix(b, f)
      m11 == MulFix(c, ee)
      m12 == -MulFix(c, f)
      m13 == d
      m21 == af + MulFix(be, d)
      m22 == ae - MulFix(bf, d)
      m23 == -MulFix(b, c)
      m31 == bf - MulFix(ae, d)
      m32 == be + MulFix(af, d)
      m33 == MulFix(a, c)
  IN  Vec(MulFix(m11, v[1]) + MulFix(m12, v[2]) + MulFix(m13, v[3]),
          MulFix(m21, v[1]) + MulFix(m22, v[2]) + MulFix(m23, v[3]),
          MulFix(m31, v[1]) + MulFix(m32, v[2]) + MulFix(m33, v[3]))

\* Vector3.applyEuler with the default order XYZ
ApplyEuler(v, e) ==
  Rotate(v, CosFix(e[1]), SinFix(e[1]), CosFix(e[2]), SinFix(e[2]),
         CosFix(e[3]), SinFix(e[3]))

\* the vertex (0-based) stored at indices 3v+1 .. 3v+3 of a flat array
VertexAt(array, v) == Vec(array[3 * v + 1], array[3 * v + 2], array[3 * v + 3])

VertexCount(array) == Len(array) \div 3

\* the flat array of a sequence of vertices
Flatten(vs) ==
  [j \in 1..(3 * Len(vs)) |-> vs[(j - 1) \div 3 + 1][((j - 1) % 3) + 1]]

SetMin(S) == CHOOSE m \in S : \A n \in S : m <= n

SetMax(S) == CHOOSE m \in S : \A n \in S : m >= n

Axis(array, k) == {array[j] : j \in {i \in 1..Len(array) : (i - 1) % 3 = k - 1}}

\* BufferGeometry.computeBoundingBox
computeBoundingBox(array) ==
  [minX |-> SetMin(Axis(array, 1)), maxX |-> SetMax(Axis(array, 1)),
   minY |-> SetMin(Axis(array, 2)), maxY |-> SetMax(Axis(array, 2)),
   minZ |-> SetMin(Axis(array, 3)), maxZ |-> SetMax(Axis(array, 3))]

BoundsCenter(b) ==
  Vec(MulFix(b.minX + b.maxX, 500), MulFix(b.minY + b.maxY, 500),
      MulFix(b.minZ + b.maxZ, 500))

\* BufferGeometry.center: translate by minus the centre of the bounding box
center(array) ==
  LET c == BoundsCenter(computeBoundingBox(array))
  IN  [j \in 1..Len(array) |-> array[j] - c[((j - 1) % 3) + 1]]

(***************************************************************************)
(* Inputs: the meshes Text3D can produce, the configurations the control   *)
(* panel can pass, pointer hit points and frame deltas.                    *)
(***************************************************************************)
\* one vertex at (1,0,0) with normal (1,0,0)
MeshOne == [position |-> <<1000, 0, 0>>, normal |-> <<1000, 0, 0>>]

\* two vertices
MeshTwo == [position |-> <<0, 0, 0, 2000, 1000, 0>>,
            normal   |-> <<0, 0, 1000, 0, 1000, 0>>]

\* a geometry without a normal attribute
MeshNoNormal == [position |-> <<1000, 0, 0>>, normal |-> NoAttribute]

\* a geometry without a position attribute
MeshNoPosition == [position |-> NoAttribute, normal |-> <<1000, 0, 0>>]

\* meshRef.current, after Text3D has rendered (Null: no mesh yet)
MeshInputs == {Null, MeshNoNormal, MeshOne, MeshTwo}

DistortionCalm ==
  [noiseAmplitude |-> 0, noiseFrequency |-> 500, noiseSpeed |-> 1000,
   followRate |-> 18000, radius |-> 500, explodeAmplitude |-> 1000,
   rotationAmplitude |-> 0, spring |-> 50, friction |-> 900,
   idleMix |-> 200, emissiveVelocityBoost |-> 5000,
   emissive |-> "#0b55c7", emissiveIntensity |-> 750]

DistortionWild ==
  [noiseAmplitude |-> 1600, noiseFrequency |-> 500, noiseSpeed |-> 1000,
   followRate |-> 18000, radius |-> 1500, explodeAmplitude |-> 1500,
   rotationAmplitude |-> 1000, spring |-> 200, friction |-> 900,
   idleMix |-> 300, emissiveVelocityBoost |-> 9000,
   emissive |-> "#ff2200", emissiveIntensity |-> 1500]

DistortionSettings == {DistortionCalm, DistortionWild}

AutomationOff ==
  [enabled |-> FALSE, mode |-> "Off", intensity |-> 1000,
   pointerZOffset |-> 20, sweepCycleSeconds |-> 6400, sweepWidth |-> 950,
   sweepCurve |-> 180, sweepBob |-> 140, sweepBobFrequency |-> 2000,
   sweepDepth |-> 100, bpm |-> 130000, stepsPerBeat |-> 1000,
   buzzFraction |-> 500, buzzAttack |-> 80, buzzRelease |-> 240,
   spreadX |-> 950, spreadY |-> 820, centerBias |-> 450,
   travelPortion |-> 220]

AutomationSweep ==
  [AutomationOff EXCEPT !.enabled = TRUE, !.mode = "Sweep",
                        !.intensity = 700]

AutomationBuzz ==
  [AutomationOff EXCEPT !.enabled = TRUE, !.mode = "BPM Buzz",
                        !.bpm = 240000, !.stepsPerBeat = 4000]

DistortionAutomationSettings == {AutomationOff, AutomationSweep, AutomationBuzz}

\* local-space hit points of pointer events
PointerPoints == {Vec(1000, 500, 0)}

\* frame deltas of the continuous clock, in seconds
Deltas == {125}

\* the seed prop (Math.random() * 1000)
Seeds == {417000}

\* the permutation tables createNoise3D() can draw from Math.random
NoiseTables == {0, 1}

MaxFrames == 2

MaxPropChanges == 2

(***************************************************************************)
(* State.                                                                  *)
(***************************************************************************)
VARIABLES
  variant,                  \* which version of ElasticText is mounted
  paused, seed, distortion, automation,          \* props
  distortionOverride,       \* distortionOverrideRef.current
  meshRef,                  \* meshRef.current: Null or the Text3D geometry
  shader,                   \* shaderRef.current: Null or its uniforms
  simulation,               \* simulationRef.current: Null or the arrays
  timeRef,                  \* timeRef.current
  noiseTable,               \* the table of noise3dRef.current
  pointerCurrent, pointerTarget, manualPointerTarget, pointerBlend,
  automationPointerTarget, automationPointerPress,
  pointerPress, pressTween, \* pointerPressRef.current.value and the GSAP
                            \* tweens alive on it, oldest first
  pauseBlend, pauseTween,   \* pauseBlendRef.current.value and its tween
  bounds,                   \* boundsRef.current
  bpmAutomation,            \* bpmAutomationRef.current
  propChanges,              \* times the parent passed a new mesh or new settings
  frames,                   \* number of frame callbacks run so far
  lastFrame                 \* what the last frame callback computed

propVars ==
  <<variant, paused, seed, distortion, automation, distortionOverride,
    propChanges>>

pointerVars ==
  <<pointerCurrent, pointerTarget, manualPointerTarget, pointerBlend,
    automationPointerTarget, automationPointerPress, bounds, bpmAutomation>>

tweenVars == <<pointerPress, pressTween, pauseBlend, pauseTween>>

frameVars == <<frames, lastFrame>>

componentVars ==
  <<propVars, meshRef, shader, simulation, timeRef, noiseTable, pointerVars,
    tweenVars, frameVars>>

(***************************************************************************)
(* GSAP tweens of one numeric property.                                    *)
(***************************************************************************)
AttackDuration == 80

ReleaseDuration == 350

PauseBlendDuration == 250

NoTween ==
  [active |-> FALSE, inited |-> FALSE, from |-> 0, to |-> 0, time |-> 0,
   duration |-> 0, ease |-> "none"]

\* gsap.killTweensOf(target); gsap.to(target, {value, duration, ease,
\* overwrite: true}): the start value is read at the tween's first render
gsapTo(value, duration, ease) ==
  [active |-> TRUE, inited |-> FALSE, from |-> 0, to |-> value, time |-> 0,
   duration |-> duration, ease |-> ease]

\* power2.out is the cubic ease-out, expo.out is 1 - 2^(-10 p)
Ease(ease, p) ==
  IF p >= Unit THEN Unit
  ELSE IF ease = "power2.out"
       THEN Unit - MulFix(MulFix(Unit - p, Unit - p), Unit - p)
       ELSE Unit - ExpNeg(MulFix(10 * p, 693))

\* a tween rendered at a time of its own, starting from the value from:
\* <<tween, value>>; the progress and the eased ratio are computed once
TweenAt(tween, from, time) ==
  IF time >= tween.duration
  THEN <<NoTween, tween.to>>
  ELSE <<[tween EXCEPT !.inited = TRUE, !.from = from, !.time = time],
         CHOOSE v \in
           {from + MulFix(tween.to - from, ratio) :
              ratio \in {Ease(tween.ease, progress) :
                           progress \in {DivFix(time, tween.duration)}}} :
           TRUE>>

\* one render of a tween by the GSAP ticker, dt later: <<tween, value>>; the
\* start value is read at the first render
TweenRender(tween, value, dt) ==
  IF ~tween.active THEN <<tween, value>>
  ELSE CHOOSE r \in
         {TweenAt(tween, from, time) :
            from \in {IF tween.inited THEN tween.from ELSE value},
            time \in {Min(tween.time + dt, tween.duration)}} : TRUE

\* one tick of the GSAP ticker over the tweens alive on one target, each
\* rendered in the order of its creation: <<tweens left, value>>
TickerRender(tweens, value, dt) ==
  LET rendered[i \in 0..Len(tweens)] ==
        IF i = 0 THEN <<<<>>, value>>
        ELSE CHOOSE r \in
               {<<rendered[i - 1][1] \o
                    (IF one[1].active THEN <<one[1]>> ELSE <<>>),
                  one[2]>> :
                  one \in {TweenRender(tweens[i], rendered[i - 1][2], dt)}} :
               TRUE
  IN  rendered[Len(tweens)]

\* the tweens of a target that a new tween leaves alive, none being killed
KeepTweens(tweens) == tweens

\* gsap.killTweensOf(target), and overwrite: true of the tween that follows:
\* no earlier tween of the target stays alive
killTweensOf(tweens) == <<>>

engagePointer(tweens) ==
  Append(killTweensOf(tweens), gsapTo(Unit, AttackDuration, "power2.out"))

releasePointer(tweens) ==
  Append(killTweensOf(tweens), gsapTo(0, ReleaseDuration, "expo.out"))

(***************************************************************************)
(* Construction.                                                           *)
(***************************************************************************)
InitialBounds ==
  [minX |-> -1000, maxX |-> 1000, minY |-> -1000, maxY |-> 1000,
   minZ |-> -500, maxZ |-> 500]

NoFrame == [kind |-> "none"]

InitComponent ==
  /\ variant \in {"blend", "automation"}
  /\ paused = FALSE
  /\ seed \in Seeds
  /\ distortionOverride = Null
  /\ meshRef = Null
  /\ shader = Null
  /\ simulation = Null
  /\ timeRef = 0
  /\ noiseTable \in NoiseTables
  /\ pointerCurrent = Zero3
  /\ pointerTarget = Zero3
  /\ manualPointerTarget = Zero3
  /\ pointerBlend = Zero3
  /\ automationPointerTarget = Zero3
  /\ automationPointerPress = 0
  /\ pointerPress = 0
  /\ pressTween = <<>>
  /\ pauseBlend = 0
  \* the paused effect of the blend version runs at mount
  /\ pauseTween = IF variant = "blend"
                  THEN gsapTo(0, PauseBlendDuration, "power2.out")
                  ELSE NoTween
  /\ bounds = InitialBounds
  /\ bpmAutomation = [stepIndex |-> -1, from |-> Zero3, to |-> Zero3]
  /\ propChanges = 0
  /\ frames = 0
  /\ lastFrame = NoFrame

(***************************************************************************)
(* initializeSimulation, run by the meshKey effect.                        *)
(***************************************************************************)
ZeroArray(n) == [j \in 1..n |-> 0]

\* a simulation whose velocity array has one entry per vertex
NewSimulationShortVelocity(p, normal) ==
  [positionArray |-> p, basePositionArray |-> p, baseNormalArray |-> normal,
   velocityArray |-> ZeroArray(Len(p) \div 3)]

\* the simulation state adopted from a geometry whose position buffer is p
NewSimulation(p, normal) ==
  [positionArray |-> p, basePositionArray |-> p, baseNormalArray |-> normal,
   velocityArray |-> ZeroArray(Len(p))]

\* an initialisation that leaves the simulation state as it is when the
\* geometry cannot be used
InitializeKeepingState(mesh) ==
  IF mesh = Null \/ mesh.position = NoAttribute \/ mesh.normal = NoAttribute
  THEN UNCHANGED <<simulation, pointerVars, pointerPress>>
  ELSE LET c == BoundsCenter(computeBoundingBox(center(mesh.position)))
       IN  /\ simulation' = NewSimulation(center(mesh.position), mesh.normal)
           /\ bounds' = computeBoundingBox(center(mesh.position))
           /\ pointerCurrent' = c
           /\ pointerTarget' = c
           /\ manualPointerTarget' = c
           /\ automationPointerTarget' = c
           /\ pointerPress' = 0
           /\ automationPointerPress' = 0
           /\ bpmAutomation' = [stepIndex |-> -1, from |-> c, to |-> c]
           /\ UNCHANGED pointerBlend

\* an initialisation that keeps the velocities of the simulation it replaces
\* when the new mesh has as many vertices
InitializeCarryingVelocity(mesh) ==
  IF mesh = Null \/ mesh.position = NoAttribute \/ mesh.normal = NoAttribute
  THEN /\ simulation' = Null
       /\ UNCHANGED <<pointerVars, pointerPress>>
  ELSE LET p == center(mesh.position)
           b == computeBoundingBox(p)
           c == BoundsCenter(b)
           kept == IF simulation = Null THEN FALSE
                   ELSE Len(simulation.velocityArray) = Len(p)
       IN  /\ simulation' =
                [NewSimulation(p, mesh.normal) EXCEPT
                   !.velocityArray = IF kept THEN simulation.velocityArray
                                     ELSE @]
           /\ bounds' = b
           /\ pointerCurrent' = c
           /\ pointerTarget' = c
           /\ manualPointerTarget' = c
           /\ automationPointerTarget' = c
           /\ pointerPress' = 0
           /\ automationPointerPress' = 0
           /\ bpmAutomation' = [stepIndex |-> -1, from |-> c, to |-> c]
           /\ UNCHANGED pointerBlend

\* part_002: the geometry is centred, the pointers start at the bounds' centre
InitializeAutomation(mesh) ==
  IF mesh = Null \/ mesh.position = NoAttribute \/ mesh.normal = NoAttribute
  THEN /\ simulation' = Null
       /\ UNCHANGED <<pointerVars, pointerPress>>
  ELSE LET p == center(mesh.position)
           b == computeBoundingBox(p)
           c == BoundsCenter(b)
       IN  /\ simulation' = NewSimulation(p, mesh.normal)
           /\ bounds' = b
           /\ pointerCurrent' = c
           /\ pointerTarget' = c
           /\ manualPointerTarget' = c
           /\ automationPointerTarget' = c
           /\ pointerPress' = 0
           /\ automationPointerPress' = 0
           /\ bpmAutomation' = [stepIndex |-> -1, from |-> c, to |-> c]
           /\ UNCHANGED pointerBlend

\* ElasticText.tsx: the pointers start at the origin
InitializeBlend(mesh) ==
  IF mesh = Null \/ mesh.position = NoAttribute \/ mesh.normal = NoAttribute
  THEN /\ simulation' = Null
       /\ UNCHANGED <<pointerVars, pointerPress>>
  ELSE /\ simulation' = NewSimulation(mesh.position, mesh.normal)
       /\ pointerCurrent' = Zero3
       /\ pointerTarget' = Zero3
       /\ pointerPress' = 0
       /\ UNCHANGED <<manualPointerTarget, pointerBlend,
                      automationPointerTarget, automationPointerPress,
                      bounds, bpmAutomation>>

initializeSimulation(mesh) ==
  IF variant = "automation" THEN InitializeAutomation(mesh)
  ELSE InitializeBlend(mesh)

\* a new meshKey: Text3D is remounted with a new geometry, then the effect runs
MeshKeyEffect(mesh) ==
  /\ propChanges < MaxPropChanges
  /\ propChanges' = propChanges + 1
  /\ meshRef' = mesh
  /\ initializeSimulation(mesh)
  /\ UNCHANGED <<variant, paused, seed, distortion, automation,
                 distortionOverride, shader, timeRef, noiseTable, pressTween,
                 pauseBlend, pauseTween, frameVars>>

\* onBeforeCompile of the material: the uniforms start at the props' values
ShaderCompile ==
  /\ meshRef # Null
  /\ shader = Null
  /\ shader' = [uEmissiveBaseColor |-> distortion.emissive,
                uEmissiveBoost |-> distortion.emissiveVelocityBoost,
                uEmissiveIntensity |-> distortion.emissiveIntensity]
  /\ UNCHANGED <<propVars, meshRef, simulation, timeRef, noiseTable,
                 pointerVars, tweenVars, frameVars>>

(***************************************************************************)
(* Pointer handlers and the pause toggle.                                  *)
(***************************************************************************)
handlePointerMove(point) ==
  /\ meshRef # Null
  /\ IF paused
     THEN UNCHANGED <<pointerVars, pressTween>>
     ELSE /\ IF variant = "automation"
             THEN /\ manualPointerTarget' = point
                  /\ UNCHANGED pointerTarget
             ELSE /\ pointerTarget' = point
                  /\ UNCHANGED manualPointerTarget
          /\ pressTween' = engagePointer(pressTween)
          /\ UNCHANGED <<pointerCurrent, pointerBlend, automationPointerTarget,
                         automationPointerPress, bounds, bpmAutomation>>
  /\ UNCHANGED <<propVars, meshRef, shader, simulation, timeRef, noiseTable,
                 pointerPress, pauseBlend, pauseTween, frameVars>>

\* onPointerOut and onPointerUp
handlePointerOut ==
  /\ meshRef # Null
  /\ pressTween' = releasePointer(pressTween)
  /\ UNCHANGED <<propVars, meshRef, shader, simulation, timeRef, noiseTable,
                 pointerVars, pointerPress, pauseBlend, pauseTween, frameVars>>

\* onClick: onTogglePause, then the paused effect of the blend version
handleClick ==
  /\ meshRef # Null
  /\ paused' = ~paused
  /\ UNCHANGED propChanges
  /\ IF variant = "blend"
     THEN /\ pauseTween' = gsapTo(IF paused' THEN Unit ELSE 0,
                                  PauseBlendDuration, "power2.out")
          /\ pressTween' = IF paused' THEN releasePointer(pressTween)
                           ELSE pressTween
     ELSE UNCHANGED <<pauseTween, pressTween>>
  /\ UNCHANGED <<variant, seed, distortion, automation, distortionOverride,
                 meshRef, shader, simulation, timeRef, noiseTable, pointerVars,
                 pointerPress, pauseBlend, frameVars>>

\* the control panel passes another distortion configuration
SetDistortion(d) ==
  /\ d # distortion
  /\ propChanges < MaxPropChanges
  /\ propChanges' = propChanges + 1
  /\ distortion' = d
  /\ UNCHANGED <<variant, paused, seed, automation, distortionOverride,
                 meshRef, shader, simulation, timeRef, noiseTable, pointerVars,
                 tweenVars, frameVars>>

\* a change of the automation prop that leaves the step state as it was
SetAutomationKeepingStep(a) ==
  /\ variant = "automation"
  /\ a # automation
  /\ propChanges < MaxPropChanges
  /\ propChanges' = propChanges + 1
  /\ automation' = a
  /\ UNCHANGED <<variant, paused, seed, distortion, distortionOverride,
                 meshRef, shader, simulation, timeRef, noiseTable,
                 pointerCurrent, pointerTarget, manualPointerTarget,
                 pointerBlend, automationPointerTarget, automationPointerPress,
                 bounds, bpmAutomation, tweenVars, frameVars>>

\* the control panel passes another automation configuration; the effect on
\* [mode, bpm, stepsPerBeat] resets the step index
SetAutomation(a) ==
  /\ variant = "automation"
  /\ a # automation
  /\ propChanges < MaxPropChanges
  /\ propChanges' = propChanges + 1
  /\ automation' = a
  /\ bpmAutomation' =
       IF <<a.mode, a.bpm, a.stepsPerBeat>> #
          <<automation.mode, automation.bpm, automation.stepsPerBeat>>
       THEN [bpmAutomation EXCEPT !.stepIndex = -1]
       ELSE bpmAutomation
  /\ UNCHANGED <<variant, paused, seed, distortion, distortionOverride,
                 meshRef, shader, simulation, timeRef, noiseTable,
                 pointerCurrent, pointerTarget, manualPointerTarget,
                 pointerBlend, automationPointerTarget, automationPointerPress,
                 bounds, tweenVars, frameVars>>

(***************************************************************************)
(* The frame callback (useFrame).                                          *)
(***************************************************************************)
\* { ...distortion, ...distortionOverride }
\* the props' configuration, whatever the override
DistortionWithoutOverride == distortion

\* { ...distortion, ...distortionOverride }, or distortion without override
ActiveDistortion ==
  IF distortionOverride = Null THEN distortion
  ELSE [f \in DOMAIN distortion |->
          IF f \in DOMAIN distortionOverride THEN distortionOverride[f]
          ELSE distortion[f]]

\* the uniforms left as they are
UniformsKept(active) == shader

\* the uniforms the frame writes when the shader has been compiled
Uniforms(active) ==
  IF shader = Null THEN Null
  ELSE [uEmissiveBaseColor |-> active.emissive,
        uEmissiveBoost |-> active.emissiveVelocityBoost,
        uEmissiveIntensity |-> active.emissiveIntensity]

\* the simplex noise of an instance's noise3dRef: a fixed function, per table
\* drawn by createNoise3D() at construction, into [-1, 1]
noise3d(table, x, y, z) ==
  (((x % 2003) * 37 + (y % 2003) * 101 + (z % 2003) * 211 + table * 997)
     % (2 * Unit + 1)) - Unit

easeInOutSine(value) == MulFix(-(CosFix(MulFix(Pi, value)) - Unit), 500)

hashToUnit(value) ==
  MulFix(43758545, SinFix(MulFix(value, 12990) + 78233)) % Unit

randomSignedWithBiasFromUnit(unit, centerBias) ==
  LET random == unit * 2 - Unit
      exponent == Unit + MulFix(clamp(centerBias, 0, Unit), 2500)
  IN  Sign(random) * PowFix(Abs(random), exponent)

\* width, height, depth and centre of boundsRef, as the frame derives them
BoundsMetrics(b) ==
  [halfWidth  |-> MulFix(Max(b.maxX - b.minX, 1), 500),
   halfHeight |-> MulFix(Max(b.maxY - b.minY, 1), 500),
   halfDepth  |-> MulFix(Max(b.maxZ - b.minZ, 1), 500),
   center     |-> Vec(MulFix(b.maxX + b.minX, 500),
                      MulFix(b.maxY + b.minY, 500),
                      MulFix(b.maxZ + b.minZ, 500))]

\* Sweep mode: the target at a phase whose sine is xNorm
SweepPoint(m, phase, xNorm) ==
  LET xTravel == MulFix(m.halfWidth, clamp(automation.sweepWidth, 50, 1300))
      curveLift == MulFix(MulFix(Unit - MulFix(xNorm, xNorm),
                                 automation.sweepCurve), m.halfHeight)
      bob == MulFix(MulFix(
               SinFix(MulFix(phase, Max(automation.sweepBobFrequency, 10))),
               automation.sweepBob), m.halfHeight)
      zOscillation == MulFix(MulFix(CosFix(MulFix(phase, 1650)),
                                    automation.sweepDepth), m.halfDepth + 250)
      targetX == m.center[1] + MulFix(xNorm, xTravel)
      targetY == m.center[2] + curveLift + bob
      targetZ == m.center[3] + zOscillation + automation.pointerZOffset
      yLimit == MulFix(m.halfHeight, 1350)
  IN  Vec(clamp(targetX, m.center[1] - xTravel, m.center[1] + xTravel),
          clamp(targetY, m.center[2] - yLimit, m.center[2] + yLimit),
          targetZ)

\* Sweep mode: the target at a phase
SweepAt(m, phase) == SweepPoint(m, phase, SinFix(phase))

\* Sweep mode at time t: the automation target
SweepTarget(t, m) ==
  SweepAt(m, 2 * MulFix(DivFix(t, Max(automation.sweepCycleSeconds, 100)), Pi))

\* BPM Buzz: position within the steps at time t
StepPosition(t) ==
  LET bpm == Max(automation.bpm, 1000)
      stepsPerBeat == Max(1000, automation.stepsPerBeat)
      stepDuration == DivFix(60000, MulFix(bpm, stepsPerBeat))
  IN  DivFix(t, stepDuration)

\* a draw from a generator advanced by every frame instead of keyed by the
\* step index
StepDrawStateful(stepIndex, m) ==
  LET unit == hashToUnit(MulFix(seed, 173) + frames * 1414)
  IN  Vec(m.center[1] + MulFix(unit, m.halfWidth),
          m.center[2] + MulFix(unit, m.halfHeight),
          m.center[3] + automation.pointerZOffset)

\* BPM Buzz: the target drawn for a step index
StepDraw(stepIndex, m) ==
  LET spreadX == clamp(automation.spreadX, 50, 1300)
      spreadY == clamp(automation.spreadY, 50, 1300)
      randomSeedBase == MulFix(seed, 173) + stepIndex * 1414
      xNorm == randomSignedWithBiasFromUnit(
                 hashToUnit(randomSeedBase + 13110), automation.centerBias)
      yNorm == randomSignedWithBiasFromUnit(
                 hashToUnit(randomSeedBase + 31770), automation.centerBias)
      zNorm == randomSignedWithBiasFromUnit(
                 hashToUnit(randomSeedBase + 57430),
                 Min(Unit, automation.centerBias + 250))
      xRange == MulFix(m.halfWidth, spreadX)
      yRange == MulFix(m.halfHeight, spreadY)
      zRange == MulFix(m.halfDepth, 350) + 120
  IN  Vec(m.center[1] + MulFix(xNorm, xRange),
          m.center[2] + MulFix(yNorm, yRange),
          m.center[3] + MulFix(zNorm, zRange) + automation.pointerZOffset)

\* a step state whose `from` is the draw of the step that was left
BuzzStateFromLastDraw(t, m) ==
  LET stepIndex == FloorFix(StepPosition(t))
  IN  IF stepIndex # bpmAutomation.stepIndex
      THEN [stepIndex |-> stepIndex, from |-> bpmAutomation.to,
            to |-> StepDraw(stepIndex, m)]
      ELSE bpmAutomation

\* BPM Buzz: the step state after the frame at time t
BuzzState(t, m) ==
  LET stepIndex == FloorFix(StepPosition(t))
  IN  IF stepIndex # bpmAutomation.stepIndex
      THEN [stepIndex |-> stepIndex, from |-> automationPointerTarget,
            to |-> StepDraw(stepIndex, m)]
      ELSE bpmAutomation

\* BPM Buzz: the engagement envelope at a progress within the step
BuzzPress(stepProgress) ==
  LET buzzFraction == clamp(automation.buzzFraction, 20, Unit)
      buzzProgress == DivFix(stepProgress, buzzFraction)
      attack == clamp(automation.buzzAttack, 10, 490)
      release == clamp(automation.buzzRelease, 10, 490)
      envelope == IF buzzProgress < attack THEN DivFix(buzzProgress, attack)
                  ELSE IF buzzProgress > Unit - release
                       THEN DivFix(Unit - buzzProgress, release)
                       ELSE Unit
  IN  IF stepProgress <= buzzFraction
      THEN clamp(MulFix(envelope, automation.intensity), 0, Unit)
      ELSE 0

\* BPM Buzz: target, press and step state from the step state of the frame
BuzzStep(state, stepPosition) ==
  LET stepProgress == stepPosition - state.stepIndex * Unit
      travelPortion == clamp(automation.travelPortion, 10, Unit)
      moveAlpha == clamp(DivFix(stepProgress, travelPortion), 0, Unit)
  IN  [target |-> VLerp(state.from, state.to, easeInOutSine(moveAlpha)),
       press |-> BuzzPress(stepProgress),
       bpm |-> state]

\* an automation block that starts from the weight of the frame before
\* instead of 0
AutomationStepKeepingPress(t) ==
  LET m == BoundsMetrics(bounds)
  IN  IF automation.enabled /\ automation.mode = "Sweep"
      THEN [target |-> SweepTarget(t, m),
            press |-> clamp(automation.intensity, 0, Unit),
            bpm |-> bpmAutomation]
      ELSE IF automation.enabled /\ automation.mode = "BPM Buzz"
      THEN BuzzStep(BuzzState(t, m), StepPosition(t))
      ELSE [target |-> automationPointerTarget,
            press |-> automationPointerPress,
            bpm |-> bpmAutomation]

\* an automation block whose Sweep weight is the intensity as configured
AutomationStepUnclamped(t) ==
  LET m == BoundsMetrics(bounds)
  IN  IF automation.enabled /\ automation.mode = "Sweep"
      THEN [target |-> SweepTarget(t, m),
            press |-> automation.intensity,
            bpm |-> bpmAutomation]
      ELSE IF automation.enabled /\ automation.mode = "BPM Buzz"
      THEN BuzzStep(BuzzState(t, m), StepPosition(t))
      ELSE [target |-> automationPointerTarget, press |-> 0,
            bpm |-> bpmAutomation]

\* the automation block of the frame at time t: target, press and step state
AutomationStep(t) ==
  LET m == BoundsMetrics(bounds)
  IN  IF automation.enabled /\ automation.mode = "Sweep"
      THEN [target |-> SweepTarget(t, m),
            press |-> clamp(automation.intensity, 0, Unit),
            bpm |-> bpmAutomation]
      ELSE IF automation.enabled /\ automation.mode = "BPM Buzz"
      THEN BuzzStep(BuzzState(t, m), StepPosition(t))
      ELSE [target |-> automationPointerTarget, press |-> 0,
            bpm |-> bpmAutomation]

\* 0.0001, in ten-thousandths
PressEpsilon == 1

\* the midpoint of the two raw targets, whatever their weights
BlendTargetMidpoint(manualTarget, manualPress, automationTarget, automationPress) ==
  [k \in 1..3 |-> RDiv(manualTarget[k] + automationTarget[k], 2)]

\* pointerBlendRef: the two raw targets scaled by their weights, the sum
\* divided by the total weight (kept exact up to the final rounding)
BlendTarget(manualTarget, manualPress, automationTarget, automationPress) ==
  [k \in 1..3 |->
     RDiv(manualTarget[k] * manualPress + automationTarget[k] * automationPress,
          manualPress + automationPress)]

\* 1 - Math.exp(-delta * followRate)
FollowAlpha(delta, followRate) == Unit - ExpFix(-MulFix(delta, followRate))

\* the mix with the two weights added up
MixFactorOfSum(manualPress, automationPress, idleMix) ==
  Max(manualPress + automationPress, idleMix)

MixFactor(manualPress, automationPress, idleMix) ==
  Max(Max(manualPress, automationPress), idleMix)

\* 0.0001, in ten-thousandths: the least radius
MinRadius == 1

\* distance <= Math.max(radius, 0.0001), on the squares (both sides are >= 0)
WithinRadius(distanceSquared, radius) ==
  LET r == Max(radius * 10, MinRadius)
  IN  distanceSquared <= (r * r) \div 100

\* an influence that falls off linearly towards the radius
PointerInfluenceFalloff(distanceSquared, active) ==
  IF WithinRadius(distanceSquared, active.radius)
  THEN MulFix(active.explodeAmplitude,
              Unit - DivFix(Min(SqrtFix(distanceSquared), active.radius),
                            Max(active.radius, 1)))
  ELSE 0

PointerInfluence(distanceSquared, active) ==
  IF WithinRadius(distanceSquared, active.radius)
  THEN active.explodeAmplitude ELSE 0

\* the displaced candidate of a vertex, before the mix
Distorted(table, base, current, normal, distance, pointerInfluence, active, t) ==
  LET frequency == active.noiseFrequency
      noiseX == noise3d(table, MulFix(current[1], frequency) + MulFix(seed, 170),
                        MulFix(current[2], frequency) + t,
                        MulFix(current[3], frequency))
      noiseY == noise3d(table, MulFix(current[1], frequency),
                        MulFix(current[2], frequency) + 23713 + t,
                        MulFix(current[3], frequency) + MulFix(seed, 310))
      noiseZ == noise3d(table, MulFix(current[1], frequency) + MulFix(seed, 590),
                        MulFix(current[2], frequency) + t,
                        MulFix(current[3], frequency) + 51219)
      noise == Vec(noiseX, noiseY, noiseZ)
      moved == [k \in 1..3 |->
                  base[k] + MulFix(MulFix(MulFix(noise[k], normal[k]),
                                          pointerInfluence),
                                   active.noiseAmplitude)]
      rotationFactor == MulFix(MulFix(distance, pointerInfluence),
                               active.rotationAmplitude)
  IN  IF pointerInfluence > 0
      THEN ApplyEuler(moved, [k \in 1..3 |-> MulFix(normal[k], rotationFactor)])
      ELSE moved

\* the candidate scaled from the origin instead of from the base
TargetFromOrigin(base, distorted, mixFactor) ==
  [k \in 1..3 |-> MulFix(distorted[k], mixFactor)]

\* base + (distorted - base) * mixFactor
Target(base, distorted, mixFactor) ==
  [k \in 1..3 |-> base[k] + MulFix(distorted[k] - base[k], mixFactor)]

\* a spring step that damps the velocity before it displaces the vertex
IntegrateDampedFirst(current, velocity, target, active) ==
  LET v1 == [k \in 1..3 |->
               velocity[k] + MulFix(target[k] - current[k], active.spring)]
  IN  <<[k \in 1..3 |-> current[k] + MulFix(v1[k], active.friction)],
        [k \in 1..3 |-> MulFix(v1[k], active.friction)]>>

\* the spring step of one vertex: <<next position, damped velocity>>
Integrate(current, velocity, target, active) ==
  LET v1 == [k \in 1..3 |->
               velocity[k] + MulFix(target[k] - current[k], active.spring)]
  IN  <<[k \in 1..3 |-> current[k] + v1[k]],
        [k \in 1..3 |-> MulFix(v1[k], active.friction)]>>

\* the spring step of a vertex towards its target, with what the iteration
\* computed on the way
VertexTowards(current, velocity, active, distanceSquared, pointerInfluence, target) ==
  [position |-> Integrate(current, velocity, target, active)[1],
   velocity |-> Integrate(current, velocity, target, active)[2],
   distanceSquared |-> distanceSquared,
   pointerInfluence |-> pointerInfluence, target |-> target]

\* one iteration of the vertex loop, for vertex v (0-based) of the arrays of
\* sim, in the instance whose noise table is table
VertexStep(sim, table, v, pointer, active, mixFactor, t) ==
  LET base == VertexAt(sim.basePositionArray, v)
      current == VertexAt(sim.positionArray, v)
      normal == VertexAt(sim.baseNormalArray, v)
      velocity == VertexAt(sim.velocityArray, v)
      dx == base[1] - pointer[1]
      dy == base[2] - pointer[2]
      dz == base[3] - pointer[3]
      distanceSquared == dx * dx + dy * dy + dz * dz
      distance == SqrtFix(distanceSquared)
      pointerInfluence == PointerInfluence(distanceSquared, active)
  IN  VertexTowards(current, velocity, active, distanceSquared,
                    pointerInfluence,
                    Target(base,
                           Distorted(table, base, current, normal, distance,
                                     pointerInfluence, active, t),
                           mixFactor))

\* the vertex loop over the whole mesh
VertexLoop(sim, table, pointer, active, mixFactor, time) ==
  LET t == MulFix(time, active.noiseSpeed) + MulFix(seed, 1)
      n == VertexCount(sim.positionArray)
  IN  [v \in 1..n |->
         VertexStep(sim, table, v - 1, pointer, active, mixFactor, t)]

\* arrays whose base positions are the geometry's own buffer
SimulationAfterAliased(sim, steps) ==
  [sim EXCEPT
     !.positionArray = Flatten([v \in 1..Len(steps) |-> steps[v].position]),
     !.basePositionArray =
        Flatten([v \in 1..Len(steps) |-> steps[v].position]),
     !.velocityArray = Flatten([v \in 1..Len(steps) |-> steps[v].velocity])]

\* the arrays after the loop
SimulationAfter(sim, steps) ==
  [sim EXCEPT
     !.positionArray = Flatten([v \in 1..Len(steps) |-> steps[v].position]),
     !.velocityArray = Flatten([v \in 1..Len(steps) |-> steps[v].velocity])]

\* what a frame that reached the vertex loop computed, kept for inspection
FrameRecord(delta, active, manualPress, automationPress, automationTarget, target, pointer, blend, mixFactor, steps) ==
  [kind |-> "ran", paused |-> paused, delta |-> delta,
   manualPress |-> manualPress, automationPress |-> automationPress,
   manualTarget |-> manualPointerTarget, automationTarget |-> automationTarget,
   pointerTarget |-> target, previousTarget |-> pointerTarget,
   previousStep |-> bpmAutomation,
   pointer |-> pointer, pauseBlend |-> blend,
   active |-> active, idleMix |-> active.idleMix, mixFactor |-> mixFactor,
   radius |-> active.radius, explodeAmplitude |-> active.explodeAmplitude,
   vertices |-> [v \in 1..Len(steps) |->
                   [base |-> VertexAt(simulation.basePositionArray, v - 1),
                    distanceSquared |-> steps[v].distanceSquared,
                    pointerInfluence |-> steps[v].pointerInfluence,
                    target |-> steps[v].target]]]

\* a target that falls back to the automation target when both weights
\* are 0
FrameTargetWithDefault(press, auto) ==
  IF (press + auto.press) * 10 > PressEpsilon
  THEN BlendTarget(manualPointerTarget, press, auto.target, auto.press)
  ELSE auto.target

\* pointerTargetRef after the blend block: the weighted target when
\* totalPress > 0.0001, the target as it was otherwise
FrameTarget(press, auto) ==
  IF (press + auto.press) * 10 > PressEpsilon
  THEN BlendTarget(manualPointerTarget, press, auto.target, auto.press)
  ELSE pointerTarget

\* part_002, the frame of an initialised, unpaused component
RunAutomationFrame(delta, active, press) ==
  \E auto \in {AutomationStep(timeRef + delta)} :
  \E target \in {FrameTarget(press, auto)} :
  \E pointer \in {VLerp(pointerCurrent, target,
                        FollowAlpha(delta, active.followRate))} :
  \E steps \in {VertexLoop(simulation, noiseTable, pointer, active,
                           MixFactor(press, auto.press, active.idleMix),
                           timeRef + delta)} :
    /\ timeRef' = timeRef + delta
    /\ automationPointerTarget' = auto.target
    /\ automationPointerPress' = auto.press
    /\ bpmAutomation' = auto.bpm
    /\ pointerBlend' = IF (press + auto.press) * 10 > PressEpsilon
                       THEN target ELSE pointerBlend
    /\ pointerTarget' = target
    /\ pointerCurrent' = pointer
    /\ simulation' = SimulationAfter(simulation, steps)
    /\ lastFrame' = FrameRecord(delta, active, press, auto.press, auto.target,
                                target, pointer, 0,
                                MixFactor(press, auto.press, active.idleMix),
                                steps)
    /\ UNCHANGED <<manualPointerTarget, bounds>>

\* part_002: the uniforms are refreshed, then a paused frame returns
UseFrameAutomation(delta, press) ==
  IF simulation = Null
  THEN /\ lastFrame' = [kind |-> "idle"]
       /\ UNCHANGED <<shader, simulation, timeRef, pointerVars>>
  ELSE LET active == ActiveDistortion
       IN  /\ shader' = Uniforms(active)
           /\ IF paused
              THEN /\ lastFrame' = [kind |-> "paused"]
                   /\ UNCHANGED <<simulation, timeRef, pointerVars>>
              ELSE RunAutomationFrame(delta, active, press)

\* a value taken whole, whatever the pause blend
PauseUnscaled(value, blendValue) == value

\* value * (1 - pauseBlend)
PauseScaled(value, blendValue) == MulFix(value, Unit - blendValue)

\* timeRef after a frame that adds its delta even when paused
BlendTimeIgnoringPause(delta) == timeRef + delta

\* if (!paused) timeRef.current += delta
BlendTime(delta) == IF paused THEN timeRef ELSE timeRef + delta

\* ElasticText.tsx: a paused frame keeps integrating with the mix scaled by
\* 1 - pauseBlend; the uniforms are refreshed last
UseFrameBlend(delta, pressValue, blendValue) ==
  IF simulation = Null
  THEN /\ lastFrame' = [kind |-> "idle"]
       /\ UNCHANGED <<shader, simulation, timeRef, pointerVars>>
  ELSE \E pointer \in {VLerp(pointerCurrent, pointerTarget,
                             FollowAlpha(delta, distortion.followRate))} :
       \E mixFactor \in {Max(PauseScaled(pressValue, blendValue),
                             PauseScaled(distortion.idleMix, blendValue))} :
       \E steps \in {VertexLoop(simulation, noiseTable, pointer,
                                distortion, mixFactor,
                                BlendTime(delta))} :
         /\ timeRef' = BlendTime(delta)
         /\ pointerCurrent' = pointer
         /\ simulation' = SimulationAfter(simulation, steps)
         /\ shader' = Uniforms(distortion)
         /\ lastFrame' = FrameRecord(delta, distortion, pressValue, 0,
                                     automationPointerTarget, pointerTarget,
                                     pointer, blendValue, mixFactor, steps)
         /\ UNCHANGED <<pointerTarget, manualPointerTarget, pointerBlend,
                        automationPointerTarget, automationPointerPress,
                        bounds, bpmAutomation>>

\* the callback registered with useFrame, called with the frame's delta;
\* press and blend are pointerPressRef.current.value and
\* pauseBlendRef.current.value as the callback reads them
UseFrame(delta, press, blend) ==
  /\ IF variant = "automation" THEN UseFrameAutomation(delta, press)
     ELSE UseFrameBlend(delta, press, blend)
  /\ UNCHANGED <<propVars, meshRef, noiseTable>>

(***************************************************************************)
(* The canvas and useScreenshotExport (part_004).  An export call is an    *)
(* async function: task holds its locals and the await it is suspended at. *)
(* Timestamps are milliseconds, as plain numbers in the same fixed point.  *)
(***************************************************************************)
VARIABLES
  frameloop,      \* the render loop mode of the canvas store
  clockElapsed,   \* clock.elapsedTime of the canvas store
  now,            \* performance.now(), in whole milliseconds
  isCapturing,    \* isCapturingRef.current
  hasPicker,      \* whether window.showDirectoryPicker exists
  gl,             \* pixel ratio and clear alpha of the renderer
  task,           \* the export call in flight, or Null
  events,         \* advance and capture calls of the sequence export in flight
  exports,        \* calls of exportScreenshot and exportSequence so far
  settled         \* how the latest of these calls ended

exportVars ==
  <<frameloop, clockElapsed, now, isCapturing, hasPicker, gl, task, events,
    exports, settled>>

\* A second instance of the text component, constructed independently and
\* given the same props and the same mesh, and the state of App around the
\* canvas.
VARIABLES
  twin,                 \* the second instance's refs, or Null when there is one
                        \* instance only
  sceneReady,           \* App's sceneReady state
  minimumDelayElapsed,  \* App's minimumDelayElapsed state
  signaledRef,          \* signaledRef.current of SceneReadySignal
  sceneMounted,         \* whether the Suspense boundary shows its children
  elapsed,              \* milliseconds since App mounted
  readyCalls            \* calls of onReady so far

appVars ==
  <<sceneReady, minimumDelayElapsed, signaledRef, sceneMounted, elapsed,
    readyCalls>>

\* The camera timeline of TextDestructionExperience.
VARIABLES
  timelineEnabled,      \* the timelineEnabled state
  timelinePlaying,      \* the timelinePlaying state
  timelineRef,          \* timelineRef.current: Null, or the live timeline
  timelineSnapshot      \* timelineSnapshotRef.current: Null, or the six
                        \* distortion values saved when a timeline was built

timelineVars ==
  <<timelineEnabled, timelinePlaying, timelineRef, timelineSnapshot>>

otherVars == <<twin, appVars, timelineVars>>

\* the fields of the distortion settings the timeline animates
TrackFields ==
  {"noiseAmplitude", "explodeAmplitude", "rotationAmplitude", "spring",
   "friction", "emissiveVelocityBoost"}

\* snapshot.distortion: the six values of the panel when a timeline is built
DistortionTrack(d) == [f \in TrackFields |-> d[f]]

\* no timeline has been enabled yet
InitTimeline ==
  /\ timelineEnabled = FALSE
  /\ timelinePlaying = FALSE
  /\ timelineRef = Null
  /\ timelineSnapshot = Null

\* a timeline that does not loop is playing
InitTimelinePlaying ==
  /\ timelineEnabled = TRUE
  /\ timelinePlaying = TRUE
  /\ timelineRef = [loop |-> FALSE]
  /\ timelineSnapshot = DistortionTrack(distortion)

vars == <<componentVars, exportVars, otherVars>>

MaxExports == 2

MaxNow == 700

\* the longest sequence whose capture loop is explored
MaxSequenceFrames == 3

\* steps of performance.now() between two events, in milliseconds
NowSteps == {700}

\* the options the Export panel passes to exportSequence
SequenceOptions ==
  {[fps |-> 500, durationSeconds |-> 100, scale |-> 1000,
    transparentBackground |-> FALSE],
   [fps |-> 2000, durationSeconds |-> 1250, scale |-> 2400,
    transparentBackground |-> TRUE],
   [fps |-> 200000, durationSeconds |-> 700, scale |-> 1000,
    transparentBackground |-> FALSE]}

\* the options the Export panel passes to exportScreenshot
ScreenshotOptions ==
  {[scale |-> 2400, transparentBackground |-> TRUE]}

InitExport ==
  /\ frameloop = "always"
  /\ clockElapsed = 0
  /\ now = 0
  /\ isCapturing = FALSE
  /\ hasPicker \in BOOLEAN
  \* the renderer is created with alpha: true and dpr [1, 2]
  /\ gl = [pixelRatio |-> Unit, clearAlpha |-> 0]
  /\ task = Null
  /\ events = <<>>
  /\ exports = 0
  /\ settled = "none"

\* Math.round
Round(x) == (x + Unit \div 2) \div Unit

\* Math.min(Math.max(Math.round(scale), 1), 4)
SafeScale(scale) == Min(Max(Round(scale), 1), 4)

\* Math.min(Math.max(options?.fps ?? 24, 1), 120)
SafeFps(o) == Min(Max(o.fps, Unit), 120 * Unit)

\* Math.min(Math.max(options?.durationSeconds ?? 4, 0.25), 120)
SafeDuration(o) == Min(Max(o.durationSeconds, 250), 120 * Unit)

\* Math.max(1, Math.round(durationSeconds * fps))
FrameCount(o) == Max(1, Round(MulFix(SafeDuration(o), SafeFps(o))))

\* 1000 / fps
FrameDurationMs(o) == DivFix(1000 * Unit, SafeFps(o))

\* a timestamp one frame late
FrameTimestampLate(captureStart, frame, frameDurationMs) ==
  captureStart + frame * frameDurationMs

\* captureStart + (frame - 1) * frameDurationMs
FrameTimestamp(captureStart, frame, frameDurationMs) ==
  captureStart + (frame - 1) * frameDurationMs

\* the largest frame count that starts without a confirmation
DownloadLimit == 80

\* setFrameloop of the canvas store: the clock is stopped and zeroed
setFrameloop(mode) ==
  /\ frameloop' = mode
  /\ clockElapsed' = 0

\* the delta a frame gets: from the timestamp when the loop mode is 'never',
\* from the running clock otherwise
FrameDelta(timestamp, clockDelta) ==
  IF frameloop = "never" THEN timestamp - clockElapsed ELSE clockDelta

\* advance(timestamp, true) of the canvas store, called by the export loop.
\* (The elapsed time a running clock keeps for itself is read by nobody:
\* setFrameloop zeroes it before advance reads it.)
Advance(timestamp, clockDelta) ==
  /\ UseFrame(FrameDelta(timestamp, clockDelta), pointerPress, pauseBlend)
  /\ clockElapsed' = IF frameloop = "never" THEN timestamp ELSE clockElapsed
  /\ UNCHANGED <<tweenVars, frames, frameloop>>

\* one animation frame of the browser, delta after the last: the GSAP ticker
\* and the continuous render loop both run from requestAnimationFrame, in
\* the order in which they asked for the frame
RenderFrame(delta, gsapFirst) ==
  /\ frameloop # "never"
  /\ frames < MaxFrames
  /\ frames' = frames + 1
  /\ pressTween' = TickerRender(pressTween, pointerPress, delta)[1]
  /\ pointerPress' = TickerRender(pressTween, pointerPress, delta)[2]
  /\ pauseTween' = TweenRender(pauseTween, pauseBlend, delta)[1]
  /\ pauseBlend' = TweenRender(pauseTween, pauseBlend, delta)[2]
  /\ UseFrame(delta, IF gsapFirst THEN pointerPress' ELSE pointerPress,
              IF gsapFirst THEN pauseBlend' ELSE pauseBlend)
  /\ UNCHANGED exportVars

\* time passes
Tick(ms) ==
  /\ now < MaxNow
  /\ now' = now + ms
  /\ UNCHANGED <<componentVars, frameloop, clockElapsed, isCapturing,
                 hasPicker, gl, task, events, exports, settled>>

\* the locals of an exportSequence call
SequenceTask(o) ==
  [kind |-> "sequence", pc |-> "picker",
   safeScale |-> SafeScale(o.scale),
   transparentBackground |-> o.transparentBackground,
   options |-> o, fps |-> SafeFps(o), frameCount |-> FrameCount(o),
   frameDurationMs |-> FrameDurationMs(o), directoryHandle |-> FALSE,
   previousFrameloop |-> frameloop,
   currentPixelRatio |-> gl.pixelRatio, clearAlpha |-> gl.clearAlpha,
   captureStart |-> 0, frame |-> 0, timeStart |-> timeRef, failed |-> FALSE]

\* the locals of an exportScreenshot call
ScreenshotTask(o) ==
  [kind |-> "screenshot", pc |-> "before",
   safeScale |-> SafeScale(SafeScale(o.scale) * Unit),
   transparentBackground |-> o.transparentBackground,
   options |-> o, fps |-> 0, frameCount |-> 0,
   frameDurationMs |-> 0, directoryHandle |-> FALSE,
   previousFrameloop |-> frameloop,
   currentPixelRatio |-> gl.pixelRatio, clearAlpha |-> gl.clearAlpha,
   captureStart |-> 0, frame |-> 0, timeStart |-> timeRef, failed |-> FALSE]

\* withCaptureContext up to its first await, onBeforeCapture
EnterCaptureContext(t) ==
  [t EXCEPT !.pc = "before", !.currentPixelRatio = gl.pixelRatio,
            !.clearAlpha = gl.clearAlpha]

\* the finally block of withCaptureContext up to its await, onAfterCapture
LeaveCaptureContext(t, failed) ==
  /\ gl' = [pixelRatio |-> t.currentPixelRatio, clearAlpha |-> t.clearAlpha]
  /\ task' = [t EXCEPT !.pc = "after", !.failed = failed]
  /\ UNCHANGED settled

\* the call returns or throws and leaves the render loop as it is
EndCallKeepingLoop(t, how) ==
  /\ task' = Null
  /\ events' = <<>>
  /\ settled' = how
  /\ UNCHANGED <<frameloop, clockElapsed>>

\* the call returns or throws; exportSequence runs its finally block
EndCall(t, how) ==
  /\ task' = Null
  /\ events' = <<>>
  /\ settled' = how
  /\ IF t.kind = "sequence" THEN setFrameloop(t.previousFrameloop)
     ELSE UNCHANGED <<frameloop, clockElapsed>>

\* exportSequence from the confirmation to the await inside
\* withCaptureContext
StartSequence(t, accept) ==
  IF ~t.directoryHandle /\ t.frameCount > DownloadLimit /\ ~accept
  THEN /\ isCapturing' = FALSE
       /\ task' = Null
       /\ settled' = "declined"
       /\ UNCHANGED <<frameloop, clockElapsed, events>>
  ELSE /\ isCapturing' = TRUE
       /\ setFrameloop("never")
       /\ task' = EnterCaptureContext([t EXCEPT !.previousFrameloop = frameloop])
       /\ events' = <<>>
       /\ UNCHANGED settled

\* a screenshot call that does not test isCapturingRef
exportScreenshotUnguarded(o) ==
  /\ exports < MaxExports
  /\ exports' = exports + 1
  /\ isCapturing' = TRUE
  /\ task' = EnterCaptureContext(ScreenshotTask(o))
  /\ UNCHANGED settled
  /\ UNCHANGED <<componentVars, frameloop, clockElapsed, now, hasPicker, gl,
                 events>>

\* a click on "screenshot"
exportScreenshot(o) ==
  /\ exports < MaxExports
  /\ exports' = exports + 1
  /\ IF isCapturing
     THEN /\ settled' = "skipped"
          /\ UNCHANGED <<isCapturing, task>>
     ELSE /\ isCapturing' = TRUE
          /\ task' = EnterCaptureContext(ScreenshotTask(o))
          /\ UNCHANGED settled
  /\ UNCHANGED <<componentVars, frameloop, clockElapsed, now, hasPicker, gl,
                 events>>

\* a click on "exportPngSequence"; accept is the answer window.confirm gets
exportSequence(o, accept) ==
  /\ exports < MaxExports
  /\ exports' = exports + 1
  /\ IF isCapturing
     THEN /\ settled' = "skipped"
          /\ UNCHANGED <<isCapturing, task, frameloop, clockElapsed, events>>
     ELSE IF hasPicker
     THEN /\ isCapturing' = TRUE
          /\ task' = SequenceTask(o)
          /\ UNCHANGED <<frameloop, clockElapsed, events, settled>>
     ELSE StartSequence(SequenceTask(o), accept)
  /\ UNCHANGED <<componentVars, now, hasPicker, gl>>

\* showDirectoryPicker settles: a handle, an AbortError or another error
PickerSettle(outcome, accept) ==
  /\ task # Null
  /\ task.pc = "picker"
  /\ CASE outcome = "handle" ->
            StartSequence([task EXCEPT !.directoryHandle = TRUE], accept)
       [] outcome = "abort" ->
            /\ isCapturing' = FALSE
            /\ task' = Null
            /\ settled' = "aborted"
            /\ UNCHANGED <<frameloop, clockElapsed, events>>
       [] OTHER ->
            /\ task' = Null
            /\ settled' = "picker error"
            /\ UNCHANGED <<isCapturing, frameloop, clockElapsed, events>>
  /\ UNCHANGED <<componentVars, now, hasPicker, gl, exports>>

\* onBeforeCapture settles; it is awaited outside the try block
BeforeSettle(ok) ==
  /\ task # Null
  /\ task.pc = "before"
  /\ IF ok
     THEN /\ gl' = [pixelRatio |-> task.currentPixelRatio * task.safeScale,
                    clearAlpha |-> IF task.transparentBackground THEN 0
                                   ELSE gl.clearAlpha]
          /\ task' = [task EXCEPT !.pc = "raf"]
          /\ UNCHANGED <<frameloop, clockElapsed, events, settled>>
     ELSE /\ EndCall(task, "before error")
          /\ UNCHANGED gl
  /\ UNCHANGED <<componentVars, now, isCapturing, hasPicker, exports>>

\* what the export loop logs for frame k
AdvanceEvent(k, timestamp) ==
  [op |-> "advance", frame |-> k, timestamp |-> timestamp,
   stepped |-> simulation # Null /\ ~paused]

CaptureEvent(k) == [op |-> "capture", frame |-> k]

\* one turn of the export loop for frame k, up to the await of canvasToBlob
LoopFrame(t, k, clockDelta) ==
  LET timestamp == FrameTimestamp(t.captureStart, k, t.frameDurationMs)
  IN  /\ Advance(timestamp, clockDelta)
      /\ events' = events \o <<AdvanceEvent(k, timestamp), CaptureEvent(k)>>
      /\ task' = [t EXCEPT !.pc = "blob", !.frame = k]
      /\ UNCHANGED <<gl, settled>>

\* the loop goes on to the next frame, or run() returns
ContinueLoop(t, clockDelta) ==
  IF t.frame < t.frameCount
  THEN LoopFrame(t, t.frame + 1, clockDelta)
  ELSE /\ LeaveCaptureContext(t, FALSE)
       /\ UNCHANGED <<componentVars, frameloop, clockElapsed, events>>

\* waitForAnimationFrame settles and run() starts
RafSettle(clockDelta) ==
  /\ task # Null
  /\ task.pc = "raf"
  /\ IF task.kind = "sequence"
     THEN LoopFrame([task EXCEPT !.captureStart = now * Unit,
                                 !.timeStart = timeRef], 1, clockDelta)
     ELSE /\ task' = [task EXCEPT !.pc = "blob"]
          /\ UNCHANGED <<componentVars, frameloop, clockElapsed, gl, events,
                         settled>>
  /\ UNCHANGED <<now, isCapturing, hasPicker, exports>>

\* canvasToBlob settles: a blob, or toBlob gave null
BlobSettle(ok, clockDelta) ==
  /\ task # Null
  /\ task.pc = "blob"
  /\ IF ~ok
     THEN /\ LeaveCaptureContext(task, TRUE)
          /\ UNCHANGED <<componentVars, frameloop, clockElapsed, events>>
     ELSE IF task.kind = "screenshot"
     THEN /\ LeaveCaptureContext(task, FALSE)
          /\ UNCHANGED <<componentVars, frameloop, clockElapsed, events>>
     ELSE IF task.directoryHandle
     THEN /\ task' = [task EXCEPT !.pc = "write"]
          /\ UNCHANGED <<componentVars, frameloop, clockElapsed, gl, events,
                         settled>>
     ELSE ContinueLoop(task, clockDelta)
  /\ UNCHANGED <<now, isCapturing, hasPicker, exports>>

\* writeBlobToDirectory settles
WriteSettle(ok, clockDelta) ==
  /\ task # Null
  /\ task.pc = "write"
  /\ IF ok
     THEN ContinueLoop(task, clockDelta)
     ELSE /\ LeaveCaptureContext(task, TRUE)
          /\ UNCHANGED <<componentVars, frameloop, clockElapsed, events>>
  /\ UNCHANGED <<now, isCapturing, hasPicker, exports>>

\* onAfterCapture settles; only then is isCapturingRef cleared
AfterSettle(ok) ==
  /\ task # Null
  /\ task.pc = "after"
  /\ isCapturing' = IF ok THEN FALSE ELSE isCapturing
  /\ EndCall(task, IF ~ok THEN "after error"
                   ELSE IF task.failed THEN "capture error" ELSE "returned")
  /\ UNCHANGED <<componentVars, now, hasPicker, gl, exports>>

(***************************************************************************)
(* App: the loading overlay (src/src/App.tsx).                             *)
(***************************************************************************)
InitApp ==
  /\ sceneReady = FALSE
  /\ minimumDelayElapsed = FALSE
  /\ signaledRef = FALSE
  /\ sceneMounted = FALSE
  /\ elapsed = 0
  /\ readyCalls = 0

\* the delay of the timeout set at mount, in milliseconds
MinimumDelay == 2000

\* the longest time followed after the mount, in milliseconds
MaxElapsed == 3000

\* milliseconds between two events
ElapsedSteps == {500}

\* const loadingVisible = !sceneReady || !minimumDelayElapsed
loadingVisible == ~sceneReady \/ ~minimumDelayElapsed

\* time passes
TimePasses(ms) ==
  /\ elapsed < MaxElapsed
  /\ elapsed' = elapsed + ms
  /\ UNCHANGED <<sceneReady, minimumDelayElapsed, signaledRef, sceneMounted,
                 readyCalls>>

\* the timeout's callback runs, 2000 ms after the mount or later
MinimumDelayTimeout ==
  /\ elapsed >= MinimumDelay
  /\ ~minimumDelayElapsed
  /\ minimumDelayElapsed' = TRUE
  /\ UNCHANGED <<sceneReady, signaledRef, sceneMounted, elapsed, readyCalls>>

\* the Suspense boundary shows its children: the scene and SceneReadySignal
\* are mounted
SuspenseResolve ==
  /\ ~sceneMounted
  /\ sceneMounted' = TRUE
  /\ UNCHANGED <<sceneReady, minimumDelayElapsed, signaledRef, elapsed,
                 readyCalls>>

\* a frame callback that calls onReady on every frame
SceneReadySignalEveryFrame ==
  /\ signaledRef' = TRUE
  /\ readyCalls' = readyCalls + 1
  /\ sceneReady' = TRUE
  /\ UNCHANGED <<minimumDelayElapsed, sceneMounted, elapsed>>

\* the frame callback of SceneReadySignal; onReady is setSceneReady(true)
SceneReadySignal ==
  IF signaledRef
  THEN UNCHANGED appVars
  ELSE /\ signaledRef' = TRUE
       /\ readyCalls' = readyCalls + 1
       /\ sceneReady' = TRUE
       /\ UNCHANGED <<minimumDelayElapsed, sceneMounted, elapsed>>

\* a frame of the canvas once the scene is mounted: every frame callback runs
AppFrame(delta) ==
  /\ sceneMounted
  /\ RenderFrame(delta, TRUE)
  /\ SceneReadySignal
  /\ UNCHANGED <<twin, timelineVars>>

InitWithApp ==
  /\ InitComponent
  /\ InitExport
  /\ hasPicker = FALSE
  /\ InitApp
  /\ InitTimeline
  /\ twin = Null
  /\ variant = "automation"
  /\ noiseTable = 0
  /\ distortion = DistortionCalm
  /\ automation = AutomationOff

NextApp ==
  \/ \E ms \in ElapsedSteps :
       TimePasses(ms) /\ UNCHANGED <<componentVars, exportVars, twin,
                                        timelineVars>>
  \/ MinimumDelayTimeout /\ UNCHANGED <<componentVars, exportVars, twin,
                                        timelineVars>>
  \/ SuspenseResolve /\ UNCHANGED <<componentVars, exportVars, twin,
                                        timelineVars>>
  \/ sceneMounted /\ MeshKeyEffect(MeshOne)
       /\ UNCHANGED <<exportVars, otherVars>>
  \/ \E delta \in Deltas : AppFrame(delta)

SpecApp == InitWithApp /\ [][NextApp]_vars

(***************************************************************************)
(* Two instances of part_002 side by side: same seed, same configuration,  *)
(* same mesh, same frame deltas, no pointer events, automation off.  Each  *)
(* instance holds the noise function its own createNoise3D() call made.    *)
(***************************************************************************)
\* the refs of a freshly constructed second instance
NewTwin(table) ==
  [noiseTable |-> table, simulation |-> Null, timeRef |-> 0,
   pointerCurrent |-> Zero3, pointerTarget |-> Zero3]

\* initializeSimulation of the second instance
TwinInitialized(mesh) ==
  IF mesh = Null \/ mesh.position = NoAttribute \/ mesh.normal = NoAttribute
  THEN [twin EXCEPT !.simulation = Null]
  ELSE LET p == center(mesh.position)
           c == BoundsCenter(computeBoundingBox(p))
       IN  [twin EXCEPT !.simulation = NewSimulation(p, mesh.normal),
                        !.pointerCurrent = c,
                        !.pointerTarget = c]

\* the vertex loop of the second instance, from its own refs
TwinLoop(active, pointer, time) ==
  [twin EXCEPT
     !.timeRef = time,
     !.pointerCurrent = pointer,
     !.simulation =
        SimulationAfter(twin.simulation,
                        VertexLoop(twin.simulation, twin.noiseTable, pointer,
                                   active, MixFactor(0, 0, active.idleMix),
                                   time))]

\* the frame callback of the second instance: both weights are 0, so the
\* target is kept and the attention point follows it
TwinFrameStep(delta) ==
  IF twin.simulation = Null \/ paused
  THEN twin
  ELSE TwinLoop(ActiveDistortion,
                VLerp(twin.pointerCurrent, twin.pointerTarget,
                      FollowAlpha(delta, ActiveDistortion.followRate)),
                twin.timeRef + delta)

\* the same geometry reaches both instances
TwinMeshKeyEffect(mesh) ==
  /\ MeshKeyEffect(mesh)
  /\ twin' = TwinInitialized(mesh)

\* one frame of the render loop runs both frame callbacks with one delta
TwinRenderFrame(delta) ==
  /\ RenderFrame(delta, TRUE)
  /\ twin' = TwinFrameStep(delta)

TwinDeltas == {125, 250}

InitTwin ==
  /\ InitComponent
  /\ InitExport
  /\ hasPicker = FALSE
  /\ InitApp
  /\ InitTimeline
  /\ variant = "automation"
  /\ distortion \in DistortionSettings
  /\ automation = AutomationOff
  /\ twin \in {NewTwin(table) : table \in NoiseTables}

NextTwin ==
  \/ \E mesh \in MeshInputs :
       TwinMeshKeyEffect(mesh)
         /\ UNCHANGED <<exportVars, appVars, timelineVars>>
  \/ \E d \in DistortionSettings :
       SetDistortion(d) /\ UNCHANGED <<exportVars, otherVars>>
  \/ \E delta \in TwinDeltas : TwinRenderFrame(delta)
         /\ UNCHANGED <<appVars, timelineVars>>

SpecTwin == InitTwin /\ [][NextTwin]_vars

(***************************************************************************)
(* part_002 under the whole range of its props: degenerate configurations, *)
(* the timeline's override, geometries without attributes, short frames.   *)
(***************************************************************************)
\* a configuration with a negative radius and no follow rate
DistortionDegenerate ==
  [DistortionCalm EXCEPT !.radius = -500, !.followRate = 0]

AutomationDistortions == {DistortionCalm, DistortionDegenerate}

\* BPM Buzz with every rate and fraction at 0
AutomationBuzzDegenerate ==
  [AutomationBuzz EXCEPT !.bpm = 0, !.stepsPerBeat = 0, !.travelPortion = 0,
                         !.buzzFraction = 0, !.buzzAttack = 0,
                         !.buzzRelease = 0]

\* Sweep with a cycle of 0 seconds
AutomationSweepDegenerate ==
  [AutomationSweep EXCEPT !.sweepCycleSeconds = 0, !.sweepBobFrequency = 0,
                          !.sweepWidth = 0]

\* BPM Buzz with steps of one second, a release above its limit and an
\* intensity above 1
AutomationBuzzSlow ==
  [AutomationBuzz EXCEPT !.bpm = 60000, !.stepsPerBeat = 1000,
                         !.buzzRelease = 600, !.intensity = 1500]

AutomationInputs ==
  {AutomationOff, AutomationBuzz, AutomationBuzzDegenerate,
   AutomationBuzzSlow, AutomationSweepDegenerate}

AutomationMeshes == {Null, MeshNoPosition, MeshTwo}

\* frame deltas: a frame within the travel of a step of AutomationBuzz, and
\* one that spans several steps
AutomationDeltas == {10, 250}

\* the distortion track of the timeline at some point of its play
TimelineTracks ==
  {[noiseAmplitude |-> 0, explodeAmplitude |-> 1550, rotationAmplitude |-> 0,
    spring |-> 68, friction |-> 880, emissiveVelocityBoost |-> 7000]}

\* what a timeline action leaves alone in the text component
timelineKept ==
  <<variant, paused, seed, meshRef, shader, simulation, timeRef, noiseTable,
    pointerCurrent, pointerTarget, manualPointerTarget, pointerBlend,
    automationPointerTarget, automationPointerPress, bounds, tweenVars,
    frameVars>>

\* an effect that only pauses the timeline when it is not to play
TimelineEffectPauseOnly(enabled, playing, loop, cleared) ==
  IF enabled /\ playing
  THEN /\ timelineRef' = [loop |-> loop]
       /\ timelineSnapshot' = DistortionTrack(distortion)
       /\ distortionOverride' = IF timelineRef # Null \/ cleared THEN Null
                                ELSE distortionOverride
  ELSE /\ timelineRef' = IF cleared THEN Null ELSE timelineRef
       /\ distortionOverride' = IF cleared THEN Null ELSE distortionOverride
       /\ UNCHANGED timelineSnapshot

\* the timeline effect after enabled, playing or a timeline parameter has
\* changed: the cleanup of the run before kills the timeline it built and
\* clears the override; then either the override is cleared, or a new
\* timeline is built from a snapshot of the panel.  cleared: the handler
\* has killed the timeline and cleared the override itself
TimelineEffect(enabled, playing, loop, cleared) ==
  IF enabled /\ playing
  THEN /\ timelineRef' = [loop |-> loop]
       /\ timelineSnapshot' = DistortionTrack(distortion)
       /\ distortionOverride' = IF timelineRef # Null \/ cleared THEN Null
                                ELSE distortionOverride
  ELSE /\ timelineRef' = Null
       /\ distortionOverride' = Null
       /\ UNCHANGED timelineSnapshot

\* onChange of the "enabled" control; autoPlay is timelineAutoPlayRef
TimelineEnabledChange(value, autoPlay, loop) ==
  /\ value # timelineEnabled
  /\ timelineEnabled' = value
  /\ timelinePlaying' = IF ~value THEN FALSE
                        ELSE IF autoPlay THEN TRUE ELSE timelinePlaying
  /\ TimelineEffect(value, timelinePlaying', loop, ~value)
  /\ UNCHANGED <<timelineKept, distortion, automation, bpmAutomation,
                 propChanges>>

\* the "play" button
TimelinePlay(loop) ==
  /\ ~timelinePlaying
  /\ timelinePlaying' = TRUE
  /\ TimelineEffect(timelineEnabled, TRUE, loop, FALSE)
  /\ UNCHANGED <<timelineKept, distortion, automation, bpmAutomation,
                 propChanges, timelineEnabled>>

\* the "pause" button
TimelinePause ==
  /\ timelinePlaying
  /\ timelinePlaying' = FALSE
  /\ TimelineEffect(timelineEnabled, FALSE, FALSE, FALSE)
  /\ UNCHANGED <<timelineKept, distortion, automation, bpmAutomation,
                 propChanges, timelineEnabled>>

\* a timeline parameter (loop, speed, preset, camera) changes during play
TimelineRestart(loop) ==
  /\ timelineEnabled
  /\ timelinePlaying
  /\ TimelineEffect(TRUE, TRUE, loop, FALSE)
  /\ UNCHANGED <<timelineKept, distortion, automation, bpmAutomation,
                 propChanges, timelineEnabled, timelinePlaying>>

\* the "reset" button: stopTimeline, then the panel gets the snapshot back
resetTimeline ==
  /\ timelinePlaying' = FALSE
  /\ timelineRef' = Null
  /\ distortionOverride' = Null
  /\ distortion' = IF timelineSnapshot = Null THEN distortion
                   ELSE [f \in DOMAIN distortion |->
                           IF f \in TrackFields THEN timelineSnapshot[f]
                           ELSE distortion[f]]
  /\ UNCHANGED <<timelineKept, automation, bpmAutomation, propChanges,
                 timelineEnabled, timelineSnapshot>>

\* the distortion values of the look preset "Mono Brutalist"
LookPresetDistortion ==
  [noiseAmplitude |-> 1250, noiseFrequency |-> 460, noiseSpeed |-> 850,
   followRate |-> 18000, radius |-> 620, explodeAmplitude |-> 1700,
   rotationAmplitude |-> 800, spring |-> 58, friction |-> 885,
   idleMix |-> 0, emissiveVelocityBoost |-> 6800,
   emissive |-> "#f8f8f4", emissiveIntensity |-> 580]

\* the automation values the preset sets; the other controls keep theirs,
\* and enabled is mode # "Off" in the prop the parent builds
LookPresetAutomation ==
  [automation EXCEPT !.enabled = TRUE, !.mode = "BPM Buzz",
                     !.intensity = 750, !.pointerZOffset = 20,
                     !.bpm = 122000, !.stepsPerBeat = 1000,
                     !.buzzFraction = 420, !.spreadX = 880, !.spreadY = 680,
                     !.centerBias = 580, !.travelPortion = 280]

\* the "apply" button of the look presets: stopTimeline, the timeline is
\* disabled, and the panel gets the preset
applyLookPreset ==
  /\ timelineEnabled' = FALSE
  /\ timelinePlaying' = FALSE
  /\ timelineRef' = Null
  /\ distortionOverride' = Null
  /\ distortion' = LookPresetDistortion
  /\ automation' = LookPresetAutomation
  /\ bpmAutomation' =
       IF <<automation'.mode, automation'.bpm, automation'.stepsPerBeat>> #
          <<automation.mode, automation.bpm, automation.stepsPerBeat>>
       THEN [bpmAutomation EXCEPT !.stepIndex = -1]
       ELSE bpmAutomation
  /\ UNCHANGED <<timelineKept, propChanges, timelineSnapshot>>

\* onUpdate of a live timeline: the override is the track's current values
TimelineUpdate(track) ==
  /\ timelineRef # Null
  /\ distortionOverride # track
  /\ distortionOverride' = track
  /\ UNCHANGED <<timelineKept, distortion, automation, bpmAutomation,
                 propChanges, timelineVars>>

\* onComplete of a timeline that does not loop: the override is cleared and
\* timelinePlaying becomes false, so the effect's cleanup kills the timeline
TimelineComplete ==
  /\ timelineRef # Null
  /\ ~timelineRef.loop
  /\ timelinePlaying' = FALSE
  /\ TimelineEffect(timelineEnabled, FALSE, FALSE, TRUE)
  /\ UNCHANGED <<timelineKept, distortion, automation, bpmAutomation,
                 propChanges, timelineEnabled>>

InitAutomation ==
  /\ InitComponent
  /\ InitExport
  /\ hasPicker = FALSE
  /\ InitApp
  /\ twin = Null
  /\ variant = "automation"
  /\ noiseTable = 0
  /\ distortion \in AutomationDistortions
  /\ automation \in {AutomationOff, AutomationBuzz}
  /\ InitTimelinePlaying

NextAutomation ==
  \/ \E mesh \in AutomationMeshes :
       MeshKeyEffect(mesh) /\ UNCHANGED <<exportVars, otherVars>>
  \/ ShaderCompile /\ UNCHANGED <<exportVars, otherVars>>
  \/ \E d \in AutomationDistortions :
       SetDistortion(d) /\ UNCHANGED <<exportVars, otherVars>>
  \/ \E a \in AutomationInputs :
       SetAutomation(a) /\ UNCHANGED <<exportVars, otherVars>>
  \/ \E track \in TimelineTracks :
       TimelineUpdate(track) /\ UNCHANGED <<exportVars, twin, appVars>>
  \/ TimelineComplete /\ UNCHANGED <<exportVars, twin, appVars>>
  \/ \E delta \in AutomationDeltas :
       RenderFrame(delta, TRUE) /\ UNCHANGED otherVars

SpecAutomation == InitAutomation /\ [][NextAutomation]_vars

(***************************************************************************)
(* The pointer handlers and the GSAP ticker.  The ticker runs on every     *)
(* animation frame while a tween is alive, whether or not the canvas       *)
(* renders a frame.                                                        *)
(***************************************************************************)
\* the time between two ticks, in seconds
TickDeltas == {125}

\* one tick of the GSAP ticker: the tweens of both targets are rendered
GsapTick(dt) ==
  /\ \E press \in {TickerRender(pressTween, pointerPress, dt)} :
       /\ pressTween' = press[1]
       /\ pointerPress' = press[2]
  /\ \E pause \in {TweenRender(pauseTween, pauseBlend, dt)} :
       /\ pauseTween' = pause[1]
       /\ pauseBlend' = pause[2]
  /\ UNCHANGED <<propVars, meshRef, shader, simulation, timeRef, noiseTable,
                 pointerVars, frameVars>>

InitPointer ==
  /\ InitComponent
  /\ InitExport
  /\ hasPicker = FALSE
  /\ InitApp
  /\ InitTimeline
  /\ twin = Null
  /\ noiseTable = 0
  /\ distortion = DistortionCalm
  /\ automation = AutomationOff

NextPointer ==
  \/ \E mesh \in {MeshOne, MeshTwo} :
       MeshKeyEffect(mesh) /\ UNCHANGED <<exportVars, otherVars>>
  \/ \E point \in PointerPoints :
       handlePointerMove(point) /\ UNCHANGED <<exportVars, otherVars>>
  \/ handlePointerOut /\ UNCHANGED <<exportVars, otherVars>>
  \/ handleClick /\ UNCHANGED <<exportVars, otherVars>>
  \/ \E dt \in TickDeltas : GsapTick(dt) /\ UNCHANGED <<exportVars, otherVars>>

\* a tween that is alive is rendered on the next animation frame
SpecPointer ==
  /\ InitPointer
  /\ [][NextPointer]_vars
  /\ WF_vars(\E dt \in TickDeltas :
               GsapTick(dt) /\ UNCHANGED <<exportVars, otherVars>>)

(***************************************************************************)
(* Both weights: part_002 with pointer events, the ticker, frames and      *)
(* automation configurations whose intensity lies outside [0, 1].          *)
(***************************************************************************)
\* Sweep with a negative intensity
AutomationSweepNegative == [AutomationSweep EXCEPT !.intensity = -500]

WeightAutomations ==
  {AutomationOff, AutomationBuzzSlow, AutomationSweepNegative}

InitWeights ==
  /\ InitComponent
  /\ InitExport
  /\ hasPicker = FALSE
  /\ InitApp
  /\ InitTimeline
  /\ twin = Null
  /\ variant = "automation"
  /\ noiseTable = 0
  /\ distortion = DistortionCalm
  /\ automation \in WeightAutomations

NextWeights ==
  \/ MeshKeyEffect(MeshTwo) /\ UNCHANGED <<exportVars, otherVars>>
  \/ \E point \in PointerPoints :
       handlePointerMove(point) /\ UNCHANGED <<exportVars, otherVars>>
  \/ handlePointerOut /\ UNCHANGED <<exportVars, otherVars>>
  \/ handleClick /\ UNCHANGED <<exportVars, otherVars>>
  \/ \E a \in WeightAutomations :
       SetAutomation(a) /\ UNCHANGED <<exportVars, otherVars>>
  \/ \E delta \in AutomationDeltas :
       RenderFrame(delta, TRUE) /\ UNCHANGED otherVars
  \/ \E dt \in TickDeltas : GsapTick(dt) /\ UNCHANGED <<exportVars, otherVars>>

SpecWeights == InitWeights /\ [][NextWeights]_vars

(***************************************************************************)
(* The camera timeline of TextDestructionExperience driving part_002.      *)
(***************************************************************************)
InitTimelineSpec ==
  /\ InitComponent
  /\ InitExport
  /\ hasPicker = FALSE
  /\ InitApp
  /\ InitTimeline
  /\ twin = Null
  /\ variant = "automation"
  /\ noiseTable = 0
  /\ distortion = DistortionCalm
  /\ automation = AutomationOff

NextTimeline ==
  \/ MeshKeyEffect(MeshTwo) /\ UNCHANGED <<exportVars, otherVars>>
  \/ \E d \in DistortionSettings :
       SetDistortion(d) /\ UNCHANGED <<exportVars, otherVars>>
  \/ \E value, autoPlay, loop \in BOOLEAN :
       TimelineEnabledChange(value, autoPlay, loop)
         /\ UNCHANGED <<exportVars, twin, appVars>>
  \/ \E loop \in BOOLEAN :
       TimelinePlay(loop) /\ UNCHANGED <<exportVars, twin, appVars>>
  \/ TimelinePause /\ UNCHANGED <<exportVars, twin, appVars>>
  \/ \E loop \in BOOLEAN :
       TimelineRestart(loop) /\ UNCHANGED <<exportVars, twin, appVars>>
  \/ resetTimeline /\ UNCHANGED <<exportVars, twin, appVars>>
  \/ applyLookPreset /\ UNCHANGED <<exportVars, twin, appVars>>
  \/ \E track \in TimelineTracks :
       TimelineUpdate(track) /\ UNCHANGED <<exportVars, twin, appVars>>
  \/ TimelineComplete /\ UNCHANGED <<exportVars, twin, appVars>>
  \/ \E delta \in Deltas : RenderFrame(delta, TRUE) /\ UNCHANGED otherVars

SpecTimeline == InitTimelineSpec /\ [][NextTimeline]_vars

(***************************************************************************)
(* The component alone, under the continuous render loop.                  *)
(***************************************************************************)
\* the browser of this run has no directory picker
Init ==
  /\ InitComponent
  /\ distortion \in DistortionSettings
  /\ automation = AutomationOff
  /\ InitExport
  /\ hasPicker = FALSE
  /\ twin = Null
  /\ InitApp
  /\ InitTimeline

\* part_002 mounted with the calm settings, in any browser
InitAnyBrowser ==
  /\ InitComponent
  /\ InitExport
  /\ variant = "automation"
  /\ distortion = DistortionCalm
  /\ automation = AutomationOff
  /\ noiseTable = 0
  /\ twin = Null
  /\ InitApp
  /\ InitTimeline

Next ==
  \/ \E mesh \in MeshInputs : MeshKeyEffect(mesh) /\ UNCHANGED <<exportVars, otherVars>>
  \/ ShaderCompile /\ UNCHANGED <<exportVars, otherVars>>
  \/ \E point \in PointerPoints :
       handlePointerMove(point) /\ UNCHANGED <<exportVars, otherVars>>
  \/ handlePointerOut /\ UNCHANGED <<exportVars, otherVars>>
  \/ handleClick /\ UNCHANGED <<exportVars, otherVars>>
  \/ \E d \in DistortionSettings : SetDistortion(d) /\ UNCHANGED <<exportVars, otherVars>>
  \/ \E a \in DistortionAutomationSettings :
       SetAutomation(a) /\ UNCHANGED <<exportVars, otherVars>>
  \/ \E delta \in Deltas, gsapFirst \in BOOLEAN :
       RenderFrame(delta, gsapFirst) /\ UNCHANGED otherVars

Spec == Init /\ [][Next]_vars

(***************************************************************************)
(* The export hook driving the component.                                  *)
(***************************************************************************)
\* a longer sequence is followed up to a declined confirmation only
Explored(o, accept) ==
  FrameCount(o) <= MaxSequenceFrames \/ (~hasPicker /\ ~accept)

NextExport ==
  \/ MeshKeyEffect(MeshOne) /\ UNCHANGED <<exportVars, otherVars>>
  \/ handleClick /\ UNCHANGED <<exportVars, otherVars>>
  \/ \E delta \in Deltas : RenderFrame(delta, TRUE) /\ UNCHANGED otherVars
  \/ \E ms \in NowSteps : Tick(ms) /\ UNCHANGED otherVars
  \/ \E o \in ScreenshotOptions : exportScreenshot(o) /\ UNCHANGED otherVars
  \/ \E o \in SequenceOptions, accept \in BOOLEAN :
       Explored(o, accept) /\ exportSequence(o, accept)
         /\ UNCHANGED otherVars
  \/ \E outcome \in {"handle", "abort", "error"}, accept \in BOOLEAN :
       PickerSettle(outcome, accept) /\ UNCHANGED otherVars
  \/ \E ok \in BOOLEAN : BeforeSettle(ok) /\ UNCHANGED otherVars
  \/ \E clockDelta \in Deltas : RafSettle(clockDelta) /\ UNCHANGED otherVars
  \/ \E ok \in BOOLEAN, clockDelta \in Deltas :
       BlobSettle(ok, clockDelta) /\ UNCHANGED otherVars
  \/ \E ok \in BOOLEAN, clockDelta \in Deltas :
       WriteSettle(ok, clockDelta) /\ UNCHANGED otherVars
  \/ \E ok \in BOOLEAN : AfterSettle(ok) /\ UNCHANGED otherVars

SpecExport == InitAnyBrowser /\ [][NextExport]_vars
(***************************************************************************)
(* Properties of the sequence export, checked under SpecExport.            *)
(***************************************************************************)
\* a sequence export has run all its frames and none of them failed
SequenceDone ==
  IF task = Null THEN FALSE
  ELSE task.kind = "sequence" /\ task.pc = "after" /\ ~task.failed

\* every deterministic step of the running export found the simulation
\* initialised and unpaused
AllStepped ==
  \A i \in 1..Len(events) : events[i].op = "advance" => events[i].stepped

\* C1: during a sequence export of N frames at the clamped rate fps every
\* deterministic step advances the simulation by 1/fps seconds, so after the
\* N-th exported frame timeRef is N/fps seconds more than at export start
\* (to within one rounding unit per frame), whatever the wall clock did.
C1_FixedTick ==
  (SequenceDone /\ AllStepped) =>
    Abs((timeRef - task.timeStart)
        - DivFix(task.frameCount * Unit, SafeFps(task.options)))
      <= task.frameCount

\* C2: exportSequence calls advance frameCount = max(1, round(duration * fps))
\* times, once per frame in the order 1..frameCount, the k-th call with
\* timestamp captureStart + (k - 1) * (1000 / fps); consecutive timestamps
\* differ by exactly 1000 / fps > 0, and frame k is captured after its own
\* advance call and before the advance call of frame k + 1.
C2_AdvanceCalls ==
  Len(events) > 0 =>
    LET o == task.options
        fps == Min(Max(o.fps, Unit), 120 * Unit)
        seconds == Min(Max(o.durationSeconds, 250), 120 * Unit)
        frameCount == Max(1, (RDiv(seconds * fps, Unit) + Unit \div 2) \div Unit)
        step == RDiv(1000 * Unit * Unit, fps)
    IN  /\ task.kind = "sequence"
        /\ Len(events) <= 2 * frameCount
        /\ (task.pc = "after" /\ ~task.failed) => Len(events) = 2 * frameCount
        /\ step > 0
        /\ \A i \in 1..Len(events) :
             LET k == (i + 1) \div 2
             IN  IF i % 2 = 1
                 THEN /\ events[i].op = "advance"
                      /\ events[i].frame = k
                      /\ events[i].timestamp = task.captureStart + (k - 1) * step
                      /\ i > 2 =>
                           events[i].timestamp - events[i - 2].timestamp = step
                 ELSE /\ events[i].op = "capture"
                      /\ events[i].frame = k

\* a three-frame export has finished its loop
C2_ThreeFramesDone == SequenceDone /\ Len(events) = 6

\* an exportSequence call is between its setFrameloop('never') and its
\* finally block
InCapture ==
  IF task = Null THEN FALSE
  ELSE task.kind = "sequence"
       /\ task.pc \in {"before", "raf", "blob", "write", "after"}

\* C3: exportSequence switches the render loop to 'never' before the first
\* deterministic step, it stays 'never' for the whole capture loop and the
\* continuous clock drives no frame meanwhile; when the call settles, with or
\* without a failed frame, the mode is the one in force before the export.
C3_RenderLoopMode ==
  /\ [](InCapture => frameloop = "never")
  /\ [][/\ (~InCapture /\ InCapture') =>
              (frameloop' = "never" /\ task'.previousFrameloop = frameloop)
        /\ (InCapture /\ InCapture') =>
              (task'.previousFrameloop = task.previousFrameloop
               /\ frames' = frames)
        /\ (InCapture /\ ~InCapture') =>
              (frameloop' = task.previousFrameloop /\ settled' # "none")
        /\ (Len(events') > Len(events)) => frameloop = "never"]_vars

\* an export whose frame capture or write failed has settled and the
\* continuous loop is back
C3_FailedExportSettled ==
  task = Null /\ settled = "capture error" /\ frameloop = "always"
(***************************************************************************)
(* Properties of the frame callback, checked under Spec.                   *)
(***************************************************************************)
\* the last frame ran the vertex loop
Ran == lastFrame.kind = "ran"

\* C4: in every unpaused frame of part_002 with manualWeight +
\* automationWeight > 0.0001 the attention target is (manualWeight *
\* manualTarget + automationWeight * automationTarget) / (manualWeight +
\* automationWeight), to within half a unit of rounding; when exactly one
\* weight is non-zero the target is that source's raw target.
C4_WeightedTarget ==
  (Ran /\ variant = "automation"
   /\ (lastFrame.manualPress + lastFrame.automationPress) * 10 > 1) =>
    LET mw == lastFrame.manualPress
        aw == lastFrame.automationPress
        mt == lastFrame.manualTarget
        at == lastFrame.automationTarget
        target == lastFrame.pointerTarget
    IN  /\ ~lastFrame.paused
        /\ \A k \in 1..3 :
             2 * Abs(target[k] * (mw + aw) - (mw * mt[k] + aw * at[k]))
               <= mw + aw
        /\ aw = 0 => target = mt
        /\ mw = 0 => target = at

\* a frame blended two different targets with two different non-zero weights
C4_TwoWeights ==
  /\ Ran
  /\ variant = "automation"
  /\ lastFrame.manualPress > 0
  /\ lastFrame.automationPress > 0
  /\ lastFrame.manualPress # lastFrame.automationPress
  /\ lastFrame.manualTarget # lastFrame.automationTarget

\* the weights and the idle mix as the last frame's vertex loop took them:
\* ElasticText.tsx multiplies both by 1 - pauseBlend, part_002 has no pause
\* blend (recorded as 0)
ManualWeight ==
  RDiv(lastFrame.manualPress * (Unit - lastFrame.pauseBlend), Unit)

IdleMixUsed ==
  RDiv(lastFrame.idleMix * (Unit - lastFrame.pauseBlend), Unit)

\* C5: in every frame that runs the vertex loop mixFactor =
\* max(max(manualWeight, automationWeight), idleMix): the engagement is the
\* larger weight, never the sum, mixFactor >= idleMix, and with both weights
\* 0 mixFactor is idleMix exactly.
C5_MixFactor ==
  Ran =>
    /\ lastFrame.mixFactor
         = Max(Max(ManualWeight, lastFrame.automationPress), IdleMixUsed)
    /\ lastFrame.mixFactor >= IdleMixUsed
    /\ (ManualWeight = 0 /\ lastFrame.automationPress = 0) =>
         lastFrame.mixFactor = IdleMixUsed

\* a frame without engagement ran on the idle floor alone
C5_IdleFloorOnly ==
  /\ Ran
  /\ lastFrame.manualPress = 0
  /\ lastFrame.automationPress = 0
  /\ lastFrame.idleMix > 0
  /\ lastFrame.pauseBlend = 0
  /\ lastFrame.mixFactor = lastFrame.idleMix

\* squared distance from a vertex's base position to the smoothed point
BaseDistanceSquared(x) ==
  (x.base[1] - lastFrame.pointer[1]) * (x.base[1] - lastFrame.pointer[1])
  + (x.base[2] - lastFrame.pointer[2]) * (x.base[2] - lastFrame.pointer[2])
  + (x.base[3] - lastFrame.pointer[3]) * (x.base[3] - lastFrame.pointer[3])

\* distance <= max(radius, 0.0001), compared in units of 0.0001
InsideRadius(x) ==
  LET r == IF lastFrame.radius * 10 > 1 THEN lastFrame.radius * 10 ELSE 1
  IN  BaseDistanceSquared(x) * 100 <= r * r

\* C6: for every vertex in every frame the pointer influence is
\* explodeAmplitude when the distance from the vertex's base position to the
\* smoothed attention point is <= max(radius, 0.0001) and 0 otherwise, and a
\* vertex with influence 0 gets its base position as target.
C6_InfluenceStep ==
  Ran =>
    \A v \in 1..Len(lastFrame.vertices) :
      LET x == lastFrame.vertices[v]
      IN  /\ x.pointerInfluence
               = IF InsideRadius(x) THEN lastFrame.explodeAmplitude ELSE 0
          /\ x.pointerInfluence = 0 => x.target = x.base

\* one frame had a vertex inside the radius and another one outside
C6_InsideAndOutside ==
  /\ Ran
  /\ lastFrame.mixFactor > 0
  /\ \E v, w \in 1..Len(lastFrame.vertices) :
       /\ lastFrame.vertices[v].pointerInfluence > 0
       /\ lastFrame.vertices[w].pointerInfluence = 0
\* every vertex sits on its base position with zero velocity, and the
\* settings in force have no noise and no rotation
ZeroInputAtRest ==
  IF simulation = Null THEN FALSE
  ELSE /\ ActiveDistortion.noiseAmplitude = 0
       /\ ActiveDistortion.rotationAmplitude = 0
       /\ simulation.positionArray = simulation.basePositionArray
       /\ \A j \in 1..Len(simulation.velocityArray) :
            simulation.velocityArray[j] = 0

\* C7: zero-input stability: a mesh at rest on its base positions, with
\* noiseAmplitude = 0 and rotationAmplitude = 0, is still at rest there after
\* a frame, wherever the attention point is and whatever mixFactor, spring
\* and friction are; so it is after any number of frames.
C7_ZeroInputStable ==
  [][(ZeroInputAtRest /\ frames' = frames + 1) =>
       /\ simulation'.positionArray = simulation.basePositionArray
       /\ simulation'.basePositionArray = simulation.basePositionArray
       /\ simulation'.velocityArray = simulation.velocityArray]_vars

\* a mesh at rest went through two frames, the last with a vertex inside the
\* radius and a positive mixFactor
C7_AtRestUnderPointer ==
  /\ ZeroInputAtRest
  /\ Ran
  /\ ~lastFrame.paused
  /\ frames >= 2
  /\ lastFrame.mixFactor > 0
  /\ \E v \in 1..Len(lastFrame.vertices) :
       lastFrame.vertices[v].pointerInfluence > 0

C9_Freeze ==
  [][(variant = "automation" /\ paused /\ simulation # Null
      /\ frames' = frames + 1) =>
       /\ simulation' = simulation
       /\ timeRef' = timeRef
       /\ pointerCurrent' = pointerCurrent
       /\ pointerTarget' = pointerTarget
       /\ automationPointerTarget' = automationPointerTarget
       /\ automationPointerPress' = automationPointerPress
       /\ bpmAutomation' = bpmAutomation
       /\ lastFrame'.kind = "paused"
       /\ shader # Null =>
            shader' = [uEmissiveBaseColor |-> ActiveDistortion.emissive,
                       uEmissiveBoost |->
                         ActiveDistortion.emissiveVelocityBoost,
                       uEmissiveIntensity |->
                         ActiveDistortion.emissiveIntensity]]_vars

\* a paused frame of part_002 wrote the uniforms of settings chosen after
\* the shader was compiled
C9_PausedFrameRefreshed ==
  /\ variant = "automation"
  /\ paused
  /\ lastFrame.kind = "paused"
  /\ timeRef > 0
  /\ IF shader = Null THEN FALSE
     ELSE shader.uEmissiveBaseColor = DistortionWild.emissive

\* C10: simulation time starts at 0, never decreases, grows by exactly the
\* frame's delta on each unpaused frame with an initialised simulation, is
\* unchanged by paused frames, by frames without a simulation and by every
\* other step, re-initialising the mesh included.
C10_SimulationTime ==
  /\ [](frames = 0 => timeRef = 0)
  /\ [][/\ timeRef' >= timeRef
        /\ frames' = frames => timeRef' = timeRef
        /\ (frames' = frames + 1 /\ simulation # Null /\ ~paused) =>
             (lastFrame'.kind = "ran" /\ lastFrame'.delta > 0
              /\ timeRef' = timeRef + lastFrame'.delta)
        /\ (frames' = frames + 1 /\ (simulation = Null \/ paused)) =>
             timeRef' = timeRef]_vars

\* simulation time has run and the mesh was then taken away or replaced
\* by one without normals
C10_TimeKeptWithoutSimulation == timeRef > 0 /\ simulation = Null

(***************************************************************************)
(* Properties of two instances side by side, checked under SpecTwin.       *)
(***************************************************************************)
\* C11: two independently constructed instances given the same seed, the
\* same configuration, the same mesh and the same frame deltas, with no
\* pointer events and automation off, hold identical position and velocity
\* arrays (and the same simulation time and attention point) after every
\* step.
C11_Determinism ==
  IF twin = Null THEN TRUE
  ELSE IF simulation = Null \/ twin.simulation = Null
       THEN simulation = twin.simulation
       ELSE /\ twin.simulation.positionArray = simulation.positionArray
            /\ twin.simulation.velocityArray = simulation.velocityArray
            /\ twin.timeRef = timeRef
            /\ twin.pointerCurrent = pointerCurrent

\* C11: apart from the noise function the two instances agree: with equal
\* noise tables the arrays are identical after every step
C11_SameNoiseSameArrays ==
  IF twin = Null THEN TRUE
  ELSE twin.noiseTable = noiseTable => C11_Determinism


(***************************************************************************)
(* Properties of part_002 over the range of its props, checked under       *)
(* SpecAutomation.                                                         *)
(***************************************************************************)
\* C12: the target of a rhythmic step is a function of the seed, the step
\* index, centerBias, spreadX, spreadY, the mesh bounds and pointerZOffset
\* alone: whatever happened before (earlier draws, resets, frames), the
\* stored `to` of a step index is the draw these inputs give.
C12_DrawIsPure ==
  bpmAutomation.stepIndex >= 0 =>
    bpmAutomation.to =
      StepDraw(bpmAutomation.stepIndex, BoundsMetrics(bounds))

\* C12: step 0 is entered again after a reset by a frame that found an
\* earlier draw in `to`, and the draw is the same point
C12_StepReentered ==
  /\ lastFrame.kind = "ran"
  /\ lastFrame.previousStep.stepIndex = -1
  /\ lastFrame.previousStep.to # BoundsCenter(bounds)
  /\ bpmAutomation.stepIndex = 0
  /\ bpmAutomation.to = lastFrame.previousStep.to


(***************************************************************************)
(* Properties of the pointer handlers and the ticker, checked under        *)
(* SpecPointer.                                                            *)
(***************************************************************************)
\* a step that starts a ramp of the manual weight
RampStarted ==
  /\ pressTween' # pressTween
  /\ pressTween' # <<>>
  /\ ~pressTween'[Len(pressTween')].inited

\* C13: whatever the interleaving of pointer move, out and up events and
\* ticks, at most one ramp is alive on the manual weight; after an unpaused
\* move it is a fresh ramp to 1 and after an out or up a fresh ramp to 0 (no
\* earlier ramp continues); a ramp ends only with the weight at its
\* destination; and unless ramps keep being started, the ramp ends.
C13_OneRamp ==
  /\ [](Len(pressTween) <= 1)
  /\ [][(~paused /\ \E point \in PointerPoints : handlePointerMove(point))
          => pressTween' = <<gsapTo(Unit, AttackDuration, "power2.out")>>]_vars
  /\ [][handlePointerOut
          => pressTween' = <<gsapTo(0, ReleaseDuration, "expo.out")>>]_vars
  /\ [][(pressTween # <<>> /\ pressTween' = <<>>)
          => pointerPress' = pressTween[1].to]_vars
  /\ ([]<><<RampStarted>>_vars \/ <>[](pressTween = <<>>))

\* C13: a move arrived while the release ramp was half way: the one ramp
\* alive is the fresh ramp to 1
C13_EngageDuringRelease ==
  /\ Len(pressTween) = 1
  /\ pressTween[1].to = Unit
  /\ ~pressTween[1].inited
  /\ pointerPress > 0
  /\ pointerPress < Unit


\* the configuration a frame is to read: each field from the override when
\* the override is there and has the field, from the props otherwise
TwoTier ==
  [f \in DOMAIN distortion |->
     IF distortionOverride # Null /\ f \in DOMAIN distortionOverride
     THEN distortionOverride[f] ELSE distortion[f]]

\* C14: a frame of an initialised component reads every field of its
\* configuration from the override when the override is non-null and has the
\* field, and from the base configuration otherwise (all fields from the base
\* when the override is null); it sets the uniforms from that reading and
\* writes neither the base configuration nor the override.
C14_TwoTierRead ==
  [][(frames' = frames + 1 /\ simulation # Null) =>
       /\ distortion' = distortion
       /\ distortionOverride' = distortionOverride
       /\ shader # Null =>
            /\ shader'.uEmissiveBaseColor = TwoTier.emissive
            /\ shader'.uEmissiveBoost = TwoTier.emissiveVelocityBoost
            /\ shader'.uEmissiveIntensity = TwoTier.emissiveIntensity
       /\ lastFrame'.kind = "ran" =>
            /\ lastFrame'.active = TwoTier
            /\ lastFrame'.explodeAmplitude = TwoTier.explodeAmplitude
            /\ lastFrame'.radius = distortion.radius
            /\ lastFrame'.idleMix = distortion.idleMix]_vars

\* C14: a frame ran under the timeline's override: spring and
\* emissiveVelocityBoost came from the override, radius and idleMix from the
\* base configuration
C14_OverrideRead ==
  /\ lastFrame.kind = "ran"
  /\ distortionOverride # Null
  /\ shader # Null
  /\ lastFrame.active.spring = distortionOverride.spring
  /\ lastFrame.active.spring # distortion.spring
  /\ shader.uEmissiveBoost = distortionOverride.emissiveVelocityBoost
  /\ lastFrame.active.radius = distortion.radius


\* the geometry of a mesh can be simulated
Usable(mesh) ==
  IF mesh = Null THEN FALSE
  ELSE mesh.position # NoAttribute /\ mesh.normal # NoAttribute

\* C15: after an initialisation that found no mesh, or a geometry without a
\* position or without a normal attribute, the simulation state is null, and
\* a frame that finds it null changes nothing (simulation time, attention
\* point and targets, weights, arrays, uniforms); an initialisation that
\* finds valid geometry makes the simulation active.
C15_NullUntilValid ==
  /\ [](~Usable(meshRef) => simulation = Null)
  /\ [][(frames' = frames + 1 /\ simulation = Null) =>
          /\ UNCHANGED <<simulation, timeRef, pointerVars, pointerPress,
                         shader, meshRef>>
          /\ lastFrame'.kind = "idle"]_vars
  /\ [][(propChanges' = propChanges + 1 /\ meshRef' # meshRef
            /\ Usable(meshRef')) =>
          /\ simulation' # Null
          /\ simulation'.positionArray = center(meshRef'.position)]_vars
  /\ [](Usable(meshRef) => simulation # Null)

\* C15: a first frame found no simulation (no mesh yet, or a geometry
\* without position); then a valid geometry arrived and the next frame ran
C15_ActiveAfterIdleFrame ==
  /\ frames = 2
  /\ lastFrame.kind = "ran"
  /\ timeRef \in AutomationDeltas
  /\ simulation # Null


\* the attention point is away from the frame's target by 0.1 or more
AwayFromTarget(point, target) ==
  \E k \in 1..3 : Abs(target[k] - point[k]) >= 100

\* C16: for every configuration, degenerate ones included, the follow rate a
\* frame uses is > 0: in a frame that ran with the attention point away from
\* its target, the attention point moves towards the target.
C16_FollowRatePositive ==
  [][(frames' = frames + 1 /\ lastFrame'.kind = "ran"
        /\ AwayFromTarget(pointerCurrent, lastFrame'.pointerTarget)) =>
       /\ FollowAlpha(lastFrame'.delta, lastFrame'.active.followRate) > 0
       /\ pointerCurrent' # pointerCurrent]_vars

\* C16: with a follow rate above 0 in the configuration the attention point
\* does move, whatever else is degenerate
C16_FollowsWhenRatePositive ==
  [][(frames' = frames + 1 /\ lastFrame'.kind = "ran"
        /\ lastFrame'.active.followRate > 0
        /\ AwayFromTarget(pointerCurrent, lastFrame'.pointerTarget)) =>
       pointerCurrent' # pointerCurrent]_vars


ZeroWeightFrame ==
  /\ frames' = frames + 1
  /\ variant = "automation"
  /\ lastFrame'.kind = "ran"
  /\ (lastFrame'.manualPress + lastFrame'.automationPress) * 10
       <= PressEpsilon

\* C18 as stated: in an unpaused frame with manualWeight + automationWeight
\* <= 0.0001 no new target is computed and the smoothed attention point
\* after the frame equals its value before the frame.
C18_PointHeld ==
  [][ZeroWeightFrame =>
       /\ pointerTarget' = pointerTarget
       /\ pointerCurrent' = pointerCurrent]_vars

\* C18, amended: in such a frame the target keeps its value, and the
\* smoothed attention point moves by the follow step towards that held
\* target and towards no other point: each coordinate ends between its old
\* value and the target's, and a point already at the target stays there.
C18_TargetHeld ==
  [][ZeroWeightFrame =>
       /\ pointerTarget' = pointerTarget
       /\ pointerCurrent' =
            VLerp(pointerCurrent, pointerTarget,
                  FollowAlpha(lastFrame'.delta, lastFrame'.active.followRate))
       /\ \A k \in 1..3 :
            /\ pointerCurrent'[k] >= Min(pointerCurrent[k], pointerTarget[k])
            /\ pointerCurrent'[k] <= Max(pointerCurrent[k], pointerTarget[k])
       /\ pointerCurrent = pointerTarget =>
            pointerCurrent' = pointerCurrent]_vars

\* C18: a frame with both weights at 0 ran while the attention point was
\* still on its way to the target of an earlier frame
C18_ZeroWeightOnTheWay ==
  /\ variant = "automation"
  /\ Ran
  /\ lastFrame.manualPress + lastFrame.automationPress = 0
  /\ lastFrame.pointerTarget = lastFrame.previousTarget
  /\ lastFrame.pointer # lastFrame.pointerTarget

(***************************************************************************)
(* The integration of the vertex loop, checked under Spec.                 *)
(***************************************************************************)
\* a step that is a frame which reached the vertex loop
VertexLoopFrame == frames' = frames + 1 /\ lastFrame'.kind = "ran"

\* the target the loop computes for vertex v (1-based) from the values the
\* arrays held at index v before the frame
OwnTarget(v) ==
  LET rec == lastFrame'.vertices[v]
      active == lastFrame'.active
  IN  Target(rec.base,
             Distorted(noiseTable, rec.base,
                       VertexAt(simulation.positionArray, v - 1),
                       VertexAt(simulation.baseNormalArray, v - 1),
                       SqrtFix(rec.distanceSquared), rec.pointerInfluence,
                       active,
                       MulFix(timeRef', active.noiseSpeed) + MulFix(seed, 1)),
             lastFrame'.mixFactor)

\* C19: in every frame that runs the vertex loop, for every vertex,
\* v1 = v + (target - p) * spring, the new position is p + v1 (the velocity
\* before damping) and the stored velocity is v1 * friction; both are
\* written at the vertex's own index, and p, v and the target are the
\* vertex's own values from before the frame.
C19_SemiImplicit ==
  [][VertexLoopFrame =>
       /\ Len(simulation'.positionArray) = Len(simulation.positionArray)
       /\ Len(simulation'.velocityArray) = Len(simulation.velocityArray)
       /\ \A v \in 1..VertexCount(simulation.positionArray) :
            \E p \in {VertexAt(simulation.positionArray, v - 1)} :
            \E target \in {lastFrame'.vertices[v].target} :
            \E v1 \in {[k \in 1..3 |->
                          VertexAt(simulation.velocityArray, v - 1)[k]
                          + MulFix(target[k] - p[k],
                                   lastFrame'.active.spring)]} :
              /\ target = OwnTarget(v)
              /\ VertexAt(simulation'.positionArray, v - 1)
                   = [k \in 1..3 |-> p[k] + v1[k]]
              /\ VertexAt(simulation'.velocityArray, v - 1)
                   = [k \in 1..3 |->
                        MulFix(v1[k], lastFrame'.active.friction)]]_vars

\* C19: an unpaused frame has integrated a mesh of two vertices that now
\* move with different velocities, under a friction that damps
C19_TwoVerticesMoving ==
  /\ variant = "automation"
  /\ Ran
  /\ ~lastFrame.paused
  /\ simulation # Null
  /\ VertexCount(simulation.velocityArray) = 2
  /\ lastFrame.active.friction > 0
  /\ lastFrame.active.friction < Unit
  /\ VertexAt(simulation.velocityArray, 0) # Zero3
  /\ VertexAt(simulation.velocityArray, 1) # Zero3
  /\ VertexAt(simulation.velocityArray, 0)
       # VertexAt(simulation.velocityArray, 1)
  /\ VertexAt(simulation.positionArray, 0)
       # VertexAt(simulation.basePositionArray, 0)

(***************************************************************************)
(* The steps of BPM Buzz, checked under SpecAutomation.                    *)
(***************************************************************************)
\* a step that is an unpaused frame in BPM Buzz mode
BuzzFrame ==
  /\ frames' = frames + 1
  /\ lastFrame'.kind = "ran"
  /\ automation.enabled
  /\ automation.mode = "BPM Buzz"

\* 60 / (bpm * stepsPerBeat), with both rates at least 1
StepSeconds ==
  DivFix(60000, MulFix(Max(automation.bpm, 1000),
                       Max(automation.stepsPerBeat, 1000)))

\* C20: in a BPM Buzz frame the stored step index becomes
\* floor(time / (60 / (bpm * stepsPerBeat))); if it differs from the index
\* stored before, `from` becomes the automation target of the end of the
\* previous frame and `to` the draw for the new index; if it is the same,
\* `from` and `to` keep their values; the frame's target lies on the path
\* from `from` to `to`, and that path starts, at progress 0 of the step, at
\* the target of the end of the previous frame, however many indices the
\* frame skipped.
C20_StepContinuity ==
  [][BuzzFrame =>
       \E idx \in {FloorFix(DivFix(timeRef', StepSeconds))} :
         /\ bpmAutomation'.stepIndex = idx
         /\ idx # bpmAutomation.stepIndex =>
              /\ bpmAutomation'.from = automationPointerTarget
              /\ bpmAutomation'.to = StepDraw(idx, BoundsMetrics(bounds))
              /\ BuzzStep(bpmAutomation', idx * Unit).target
                   = automationPointerTarget
         /\ idx = bpmAutomation.stepIndex =>
              /\ bpmAutomation'.from = bpmAutomation.from
              /\ bpmAutomation'.to = bpmAutomation.to
         /\ automationPointerTarget'
              = BuzzStep(bpmAutomation', DivFix(timeRef', StepSeconds)).target
    ]_vars

\* C20: a frame left a step before its travel was over and skipped several
\* step indices; the new step starts from the target that frame found,
\* which is neither end of the step that was left
C20_SkippedMidTravel ==
  /\ Ran
  /\ automation.enabled
  /\ automation.mode = "BPM Buzz"
  /\ lastFrame.previousStep.stepIndex >= 0
  /\ bpmAutomation.stepIndex > lastFrame.previousStep.stepIndex + 2
  /\ bpmAutomation.from # lastFrame.previousStep.from
  /\ bpmAutomation.from # lastFrame.previousStep.to
  /\ bpmAutomation.to # lastFrame.previousStep.to

\* C20: a frame stayed within the step of the frame before it
C20_SameStep ==
  /\ Ran
  /\ automation.enabled
  /\ automation.mode = "BPM Buzz"
  /\ lastFrame.previousStep.stepIndex >= 0
  /\ bpmAutomation = lastFrame.previousStep

(***************************************************************************)
(* The reset of the step state, checked under SpecAutomation.              *)
(***************************************************************************)
\* the three props the reset effect depends on
StepKey(a) == <<a.mode, a.bpm, a.stepsPerBeat>>

\* a step that is a run of the meshKey effect: a prop changed, and it was
\* neither the distortion nor the automation prop
Reinitialised ==
  /\ propChanges' # propChanges
  /\ distortion' = distortion
  /\ automation' = automation

\* C21: a change of the automation mode, bpm or stepsPerBeat, and every
\* re-initialisation that installs a simulation, leaves the stored step
\* index at -1; simulation time is never negative, so an index a frame
\* stores is never -1; and a BPM Buzz frame that finds -1 stores the index
\* it computed, takes `from` from the automation target as it was and `to`
\* from the draw for that index.
C21_StepReset ==
  [][/\ timeRef' >= 0
     /\ bpmAutomation'.stepIndex >= -1
     /\ StepKey(automation') # StepKey(automation) =>
          bpmAutomation'.stepIndex = -1
     /\ (Reinitialised /\ simulation' # Null) =>
          bpmAutomation'.stepIndex = -1
     /\ BuzzFrame =>
          /\ bpmAutomation'.stepIndex >= 0
          /\ bpmAutomation'.stepIndex = FloorFix(StepPosition(timeRef'))
          /\ bpmAutomation.stepIndex = -1 =>
               /\ bpmAutomation'.from = automationPointerTarget
               /\ bpmAutomation'.to
                    = StepDraw(bpmAutomation'.stepIndex,
                               BoundsMetrics(bounds))]_vars

\* C21: after a reset a frame computed the step index that was stored
\* before the reset (`to` is the draw of that step, not the centre), and
\* `from` was derived again: it is the target the frame before had reached
C21_SameIndexRederived ==
  /\ Ran
  /\ automation.enabled
  /\ automation.mode = "BPM Buzz"
  /\ lastFrame.previousStep.stepIndex = -1
  /\ lastFrame.previousStep.to # BoundsCenter(bounds)
  /\ bpmAutomation.to = lastFrame.previousStep.to
  /\ bpmAutomation.from # lastFrame.previousStep.from
  /\ bpmAutomation.from # BoundsCenter(bounds)

(***************************************************************************)
(* The automation weight, checked under SpecAutomation.                    *)
(***************************************************************************)
\* the envelope at a progress within the buzz window: a linear rise over
\* the attack fraction, 1, a linear fall over the release fraction
Envelope(buzzProgress, attack, release) ==
  IF buzzProgress < attack THEN DivFix(buzzProgress, attack)
  ELSE IF buzzProgress > Unit - release
       THEN DivFix(Unit - buzzProgress, release)
       ELSE Unit

\* the weight of BPM Buzz at a progress within the step
BuzzWeight(stepProgress) ==
  \E buzzFraction \in {clamp(automation.buzzFraction, 20, Unit)} :
    IF stepProgress > buzzFraction
    THEN automationPointerPress' = 0
    ELSE automationPointerPress' =
           clamp(MulFix(Envelope(DivFix(stepProgress, buzzFraction),
                                 clamp(automation.buzzAttack, 10, 490),
                                 clamp(automation.buzzRelease, 10, 490)),
                        automation.intensity), 0, Unit)

\* C22: after every frame that ran unpaused the automation weight is the
\* one computed by that frame: 0 when automation is disabled or Off,
\* clamp(intensity, 0, 1) in Sweep mode whatever the time, and in BPM Buzz
\* 0 past the buzz fraction of the step and clamp(envelope * intensity, 0,
\* 1) within it; the frame used that weight.
C22_AutomationWeight ==
  [][(frames' = frames + 1 /\ lastFrame'.kind = "ran") =>
       /\ lastFrame'.automationPress = automationPointerPress'
       /\ (~automation.enabled \/ automation.mode = "Off") =>
            automationPointerPress' = 0
       /\ (automation.enabled /\ automation.mode = "Sweep") =>
            automationPointerPress' = clamp(automation.intensity, 0, Unit)
       /\ (automation.enabled /\ automation.mode = "BPM Buzz") =>
            BuzzWeight(StepPosition(timeRef')
                       - FloorFix(StepPosition(timeRef')) * Unit)]_vars

\* C22: a BPM Buzz frame within the attack found a weight strictly between
\* 0 and the intensity
C22_InAttack ==
  /\ Ran
  /\ automation.enabled
  /\ automation.mode = "BPM Buzz"
  /\ lastFrame.automationPress > 0
  /\ lastFrame.automationPress < Min(automation.intensity, Unit)
  /\ DivFix(StepPosition(timeRef) - FloorFix(StepPosition(timeRef)) * Unit,
            clamp(automation.buzzFraction, 20, Unit))
       < clamp(automation.buzzAttack, 10, 490)

(***************************************************************************)
(* The arrays of the simulation, checked under Spec.                       *)
(***************************************************************************)
\* the indices the vertex loop touches: i, i + 1 and i + 2 for every i it
\* visits (1-based here)
LoopIndices(sim) ==
  {3 * v + k : v \in 0..(VertexCount(sim.positionArray) - 1), k \in 1..3}

\* C23: the four arrays of an initialised simulation have the same length,
\* in every state (so before and after every frame and every
\* re-initialisation), and every index the vertex loop touches is an index
\* of each of them.
C23_SameLength ==
  simulation # Null =>
    /\ Len(simulation.velocityArray) = Len(simulation.positionArray)
    /\ Len(simulation.basePositionArray) = Len(simulation.positionArray)
    /\ Len(simulation.baseNormalArray) = Len(simulation.positionArray)
    /\ Len(simulation.positionArray) % 3 = 0
    /\ \A i \in LoopIndices(simulation) :
         /\ i \in DOMAIN simulation.positionArray
         /\ i \in DOMAIN simulation.velocityArray
         /\ i \in DOMAIN simulation.basePositionArray
         /\ i \in DOMAIN simulation.baseNormalArray

\* C23: after a frame on a mesh of one vertex a mesh of two vertices was
\* adopted
C23_LargerMeshAdopted ==
  /\ Ran
  /\ Len(lastFrame.vertices) = 1
  /\ simulation # Null
  /\ VertexCount(simulation.positionArray) = 2

\* C24: a step that is not a run of the meshKey effect leaves an
\* initialised simulation initialised and writes neither the base-position
\* nor the base-normal array.
C24_BaseArraysKept ==
  [][(simulation # Null /\ ~Reinitialised) =>
       /\ simulation' # Null
       /\ simulation'.basePositionArray = simulation.basePositionArray
       /\ simulation'.baseNormalArray = simulation.baseNormalArray]_vars

\* C24: two frames have moved a vertex away from its base position
C24_MovedFromBase ==
  /\ Ran
  /\ frames = 2
  /\ simulation # Null
  /\ simulation.positionArray # simulation.basePositionArray
  /\ simulation.velocityArray # ZeroArray(Len(simulation.velocityArray))

(***************************************************************************)
(* Re-initialisation, checked under Spec.                                  *)
(***************************************************************************)
\* C25: in part_002, every run of the meshKey effect that finds a mesh
\* with position and normal attributes installs a new simulation: the
\* velocities are all 0, the current positions are the new base positions
\* (the mesh's positions, centred), the bounds are those of the new mesh,
\* the smoothed attention point and the blended, manual and automation
\* targets are at the centre of the new bounds, and the automation weight
\* is 0.
C25_NewSimulation ==
  [][(variant = "automation" /\ Reinitialised /\ Usable(meshRef')) =>
       \E p \in {center(meshRef'.position)} :
       \E c \in {BoundsCenter(computeBoundingBox(p))} :
         /\ simulation' # Null
         /\ simulation'.velocityArray = ZeroArray(Len(p))
         /\ simulation'.positionArray = p
         /\ simulation'.basePositionArray = p
         /\ simulation'.baseNormalArray = meshRef'.normal
         /\ bounds' = computeBoundingBox(p)
         /\ pointerCurrent' = c
         /\ pointerTarget' = c
         /\ manualPointerTarget' = c
         /\ automationPointerTarget' = c
         /\ automationPointerPress' = 0]_vars

\* C25: a mesh was adopted after a frame that had pulled a vertex of the
\* mesh before it towards a target away from its base, with the attention
\* point away from the centre; the simulation is new
C25_AdoptedAfterMotion ==
  /\ variant = "automation"
  /\ Ran
  /\ \E v \in 1..Len(lastFrame.vertices) :
       lastFrame.vertices[v].target # lastFrame.vertices[v].base
  /\ lastFrame.pointer # BoundsCenter(bounds)
  /\ simulation # Null
  /\ simulation.velocityArray = ZeroArray(Len(simulation.positionArray))
  /\ simulation.positionArray = simulation.basePositionArray
  /\ pointerCurrent = BoundsCenter(bounds)
  /\ pointerTarget = BoundsCenter(bounds)

(***************************************************************************)
(* The range of the weights, checked under SpecWeights.                    *)
(***************************************************************************)
\* a value in [0, 1]
InUnit(x) == x >= 0 /\ x <= Unit

\* C26: in every state the manual weight and the automation weight lie in
\* [0, 1], and so does their maximum; the weights a frame used did too.
C26_WeightsInUnit ==
  /\ InUnit(pointerPress)
  /\ InUnit(automationPointerPress)
  /\ InUnit(Max(pointerPress, automationPointerPress))
  /\ Ran =>
       /\ InUnit(lastFrame.manualPress)
       /\ InUnit(lastFrame.automationPress)
       /\ InUnit(Max(lastFrame.manualPress, lastFrame.automationPress))

\* C26: a frame ran in Sweep mode with a negative intensity while a ramp
\* had the manual weight strictly between 0 and 1
C26_NegativeIntensityFrame ==
  /\ Ran
  /\ automation.enabled
  /\ automation.mode = "Sweep"
  /\ automation.intensity < 0
  /\ lastFrame.automationPress = 0
  /\ lastFrame.manualPress > 0
  /\ lastFrame.manualPress < Unit

(***************************************************************************)
(* The capture lock, checked under SpecExport.                             *)
(***************************************************************************)
\* C27: whenever no export call is in flight, however the calls before
\* have settled (returned, aborted, declined, failed in the picker, in a
\* capture or a write, or in onBeforeCapture or onAfterCapture),
\* isCapturing is false.
C27_LockReleased == task = Null => ~isCapturing

\* C27, for the ways of settling that pass the lock's release: a call that
\* returned, was aborted or declined, or failed in a capture or a write
\* leaves isCapturing false
C27_ReleasedOnOtherPaths ==
  [][(task # Null /\ task' = Null
        /\ settled' \in {"returned", "aborted", "declined", "capture error"})
       => ~isCapturing']_vars

\* a step that is a call of exportScreenshot or exportSequence
ExportCalled == exports' = exports + 1

\* a step in which the export call in flight settles
CaptureSettles == task # Null /\ task' = Null

\* C28: while an export call is in flight isCapturing is true, and a call
\* of exportScreenshot or exportSequence made then returns at once: pixel
\* ratio, clear alpha, render loop mode, isCapturing and the call in flight
\* are as they were, no advance is called (no event is logged, the
\* simulation and the clock are untouched) and no lifecycle callback is
\* awaited; and when a call settles, the pixel ratio and the clear alpha are
\* those read when it started, which are the renderer's own.
C28_OneCapture ==
  [][/\ task' # Null => isCapturing'
     /\ (ExportCalled /\ task # Null) =>
          /\ settled' = "skipped"
          /\ UNCHANGED <<gl, frameloop, clockElapsed, isCapturing, task,
                         events, componentVars>>
     /\ CaptureSettles =>
          /\ gl'.pixelRatio = task.currentPixelRatio
          /\ gl'.clearAlpha = task.clearAlpha
     /\ task' = Null => gl' = [pixelRatio |-> Unit, clearAlpha |-> 0]]_vars

\* C28: a call was made and skipped while a capture that had scaled the
\* pixel ratio was in flight
C28_SkippedDuringCapture ==
  /\ settled = "skipped"
  /\ task # Null
  /\ task.pc \in {"raf", "blob", "write"}
  /\ gl.pixelRatio # task.currentPixelRatio
  /\ isCapturing

(***************************************************************************)
(* The timeline override, checked under SpecTimeline.                      *)
(***************************************************************************)
\* C29: whenever the timeline is not both enabled and playing, no timeline
\* is alive and the distortion override is null, after whichever of stop,
\* reset, disabling, pause, look preset, completion or restart; a frame
\* that runs then uses the base configuration only.
C29_NoStaleOverride ==
  [][~(timelineEnabled' /\ timelinePlaying') =>
       /\ timelineRef' = Null
       /\ distortionOverride' = Null
       /\ (frames' = frames + 1 /\ lastFrame'.kind = "ran") =>
            lastFrame'.active = distortion]_vars

\* C29: a frame ran on the base configuration after the timeline, which had
\* written an override different from it, was paused
C29_FrameAfterPause ==
  /\ Ran
  /\ timelineEnabled
  /\ ~timelinePlaying
  /\ timelineSnapshot # Null
  /\ timelineSnapshot # DistortionTrack(distortion)
  /\ distortionOverride = Null
  /\ lastFrame.active = distortion

(***************************************************************************)
(* The manual weight across a re-initialisation, checked under             *)
(* SpecPointer.                                                            *)
(***************************************************************************)
\* the raw target the pointer handlers write
ManualTarget ==
  IF variant = "automation" THEN manualPointerTarget ELSE pointerTarget

\* initializeSimulation has run and no pointer-move has been accepted since:
\* the raw target is the one initializeSimulation wrote, which no
\* pointer-move of PointerPoints writes
NoMoveSinceInit == simulation # Null /\ ManualTarget \notin PointerPoints

\* C30: after a re-initialisation the manual weight is 0 and stays 0 until
\* the next pointer-move accepted while unpaused, whether or not a ramp was
\* in flight; a pointer-move while paused changes neither the manual raw
\* target nor the manual weight.
C30_ManualWeightReset ==
  [][/\ NoMoveSinceInit' => pointerPress' = 0
     /\ (paused /\ \E point \in PointerPoints : handlePointerMove(point)) =>
          UNCHANGED <<manualPointerTarget, pointerTarget, pointerPress>>]_vars

\* C30: initializeSimulation itself writes 0, and a pointer-move while
\* paused changes neither the raw target nor the weight
C30_ResetAtInit ==
  [][/\ (propChanges' # propChanges /\ simulation' # Null) =>
          pointerPress' = 0
     /\ (paused /\ \E point \in PointerPoints : handlePointerMove(point)) =>
          UNCHANGED <<manualPointerTarget, pointerTarget, pointerPress>>]_vars

=============================================================================
